---- MODULE Spec2Model ----
(***************************************************************************)
(* Model of the neural-webhook service: the resilient store                *)
(* (services/database_service.py), its credential-refresh callback         *)
(* (main.py, services/vault_secret_provider.py) and the event pipeline     *)
(* (services/event_processor.py, utils/plate_normalizer.py).               *)
(*                                                                         *)
(* Every `await` of the source is a suspension point: one action models    *)
(* the code that runs from one await to the next.                          *)
(***************************************************************************)
EXTENDS Integers, Sequences, FiniteSets, TLC

(* ------------------------------ bounds -------------------------------- *)
\* concurrent tasks that call the store
NTasks == 2
\* store calls (requests) started in one behaviour
MaxCalls == 2
\* credential rotations performed by the database administrator
MaxRotations == 2
\* secondary evidences carried by one webhook request
MaxEvidences == 2
\* the clock runs from 0 to MaxTime; the time-to-live of a cached secret, in
\* the same units
MaxTime == 3
_cache_ttl == 2

Tasks == 1..NTasks
\* initialize() opens two pools, every recreate_pools opens at most two more
PoolIds == 1..(2 + 2 * MaxCalls)
Passwords == 0..MaxRotations
\* Python's None for a pool reference or a returned id
None == 0

VARIABLES
  \* ---- NeuralDatabaseService
  poolState,        \* pool object -> "unborn" | "open" | "closing" | "closed"
  poolPw,           \* pool object -> password its connections are opened with
  write_pool,       \* self.write_pool (a pool object or None)
  read_pool,        \* self.read_pool
  db_total_events,  \* self._total_events of the store
  on_auth_error,    \* the callback registered: "None", "_handle_db_auth_error"
                    \* or "callable", any other callable its owner supplies
  eventRows,        \* rows of detected_plates_wh_devices, in insertion order
  rejectedRows,     \* rows of rejected_plates_wh_cameras
  \* ---- NeuralConfig / environment
  db_password,      \* config.db_password
  serverPw,         \* the password the database server accepts
  vaultPw,          \* the secret stored in the vault
  \* ---- VaultSecretProvider
  cache,            \* self._cache entry of the database secret
  signerGen,        \* number of signer refreshes performed
  \* ---- tasks
  pc,               \* task -> position in the code
  call,             \* task -> the store call in progress and its history
  cbl,              \* task -> locals of the callback / recreate_pools
  nCalls,           \* store calls / requests started so far
  \* ---- NeuralEventProcessor
  strict_mode,      \* config.strict_mode
  rq,               \* task -> the webhook request in progress
  proc_total_events,\* self._total_events of the processor
  last_event_time,  \* self._last_event_time (0 = None, else the request
                    \* whose response read the clock)
  \* ---- plate_normalizer
  nz,               \* one call of normalize_neural_plate: arguments, result
  \* ---- VaultSecretProvider used on its own
  now,              \* time.time(), in units of the model
  auth_type,        \* self.auth_type of the provider
  gs,               \* one call of get_secret by a caller of the provider
  \* ---- read operations of the store
  rd                \* one read call and the endpoint that made it

\* what no store operation writes: the registration of the callback and the
\* state of the event processor
outerVars == <<on_auth_error, strict_mode, rq, proc_total_events, last_event_time,
               nz, now, auth_type, gs, rd>>
storeVars == <<poolState, poolPw, write_pool, read_pool, db_total_events,
               outerVars, eventRows, rejectedRows>>
envVars   == <<db_password, serverPw, vaultPw>>
vaultVars == <<cache, signerGen>>
taskVars  == <<pc, call, cbl, nCalls>>
vars      == <<storeVars, envVars, vaultVars, taskVars>>


(* ------------------ utils/plate_normalizer.py -------------------------- *)
\* A string is a sequence of one-character strings; Python's None for an
\* optional string is NoneStr, a non-string value in a string's place NonStr.
NoneStr == <<"<None>">>
NonStr  == <<"<int>">>

UpperLetters == <<"A","B","C","D","E","F","G","H","I","J","K","L","M",
                  "N","O","P","Q","R","S","T","U","V","W","X","Y","Z">>
LowerLetters == <<"a","b","c","d","e","f","g","h","i","j","k","l","m",
                  "n","o","p","q","r","s","t","u","v","w","x","y","z">>
Digits == {"0","1","2","3","4","5","6","7","8","9"}
Range(f) == {f[i] : i \in DOMAIN f}
IndexOf(f, c) == CHOOSE i \in DOMAIN f : f[i] = c

\* str.isalpha / str.isdigit / str.upper / str.lower on one character
isalpha(c) == c \in Range(UpperLetters) \cup Range(LowerLetters)
isdigit(c) == c \in Digits
UpperChar(c) == IF c \in Range(LowerLetters) THEN UpperLetters[IndexOf(LowerLetters, c)] ELSE c
LowerChar(c) == IF c \in Range(UpperLetters) THEN LowerLetters[IndexOf(UpperLetters, c)] ELSE c
upper(s) == [i \in DOMAIN s |-> UpperChar(s[i])]
lower(s) == [i \in DOMAIN s |-> LowerChar(s[i])]

\* the characters str.strip() removes: the blank and the other white space
\* (of which the model has the line feed)
Whitespace == {" ", "\n"}

\* str.strip(): leading and trailing whitespace removed
RECURSIVE lstrip(_)
lstrip(s) == IF s # <<>> /\ Head(s) \in Whitespace THEN lstrip(Tail(s)) ELSE s
RECURSIVE rstrip(_)
rstrip(s) == IF s # <<>> /\ s[Len(s)] \in Whitespace
             THEN rstrip(SubSeq(s, 1, Len(s) - 1)) ELSE s
strip(s) == rstrip(lstrip(s))

\* str.replace(ch, '')
RECURSIVE remove(_, _)
remove(s, ch) == IF s = <<>> THEN <<>>
                 ELSE IF Head(s) = ch THEN remove(Tail(s), ch)
                 ELSE <<Head(s)>> \o remove(Tail(s), ch)

\* plate_normalizer.py 14
COLOMBIA_COUNTRY_CODES == {<<"1","7","0">>, <<"2","1","0">>, <<>>}

\* plate_normalizer.py 17-24
OCR_CORRECTIONS ==
  [c \in {"O","0","I","1","Z","2","S","5","B","8","G","6"} |->
     CASE c = "O" -> "0" [] c = "0" -> "O" [] c = "I" -> "1" [] c = "1" -> "I"
       [] c = "Z" -> "2" [] c = "2" -> "Z" [] c = "S" -> "5" [] c = "5" -> "S"
       [] c = "B" -> "8" [] c = "8" -> "B" [] c = "G" -> "6" [] c = "6" -> "G"]

IsUpperLetter(c) == c \in Range(UpperLetters)
\* re.match(r'^[A-Z]{a}[0-9]{b}[A-Z]{c}$') on a string without newline
Shape(s, first, second) ==
  \A i \in DOMAIN s :
    IF i <= 3 THEN (IF first = "L" THEN IsUpperLetter(s[i]) ELSE isdigit(s[i]))
    ELSE second[i - 3] = (IF IsUpperLetter(s[i]) THEN "L"
                          ELSE IF isdigit(s[i]) THEN "D" ELSE "x")

\* plate_normalizer.py 73-89
_get_plate_format(plate0) ==
  LET plate == strip(upper(plate0))
  IN  IF plate = <<>> THEN "None"
      ELSE IF Len(plate) = 6 /\ Shape(plate, "L", <<"D","D","D">>) THEN "carro"
      ELSE IF Len(plate) = 6 /\ Shape(plate, "L", <<"D","D","L">>) THEN "moto_nueva"
      ELSE IF Len(plate) = 5 /\ Shape(plate, "L", <<"D","D">>) THEN "moto_antigua"
      ELSE IF Len(plate) = 6 /\ Shape(plate, "D", <<"L","L","L">>) THEN "motocarro"
      ELSE "None"

\* plate_normalizer.py 39-70
_is_valid_colombian_plate(plate0) ==
  LET plate == strip(upper(plate0))
  IN  /\ plate # <<>>
      /\ \/ Len(plate) = 6 /\ Shape(plate, "L", <<"D","D","D">>)
         \/ Len(plate) = 6 /\ Shape(plate, "L", <<"D","D","L">>)
         \/ Len(plate) = 5 /\ Shape(plate, "L", <<"D","D">>)
         \/ Len(plate) = 6 /\ Shape(plate, "D", <<"L","L","L">>)

\* plate_normalizer.py 103-126 and 138-150: what position i (1-based) of a
\* plate of length n must hold under a template
Expected(tmpl, i, n) ==
  IF tmpl = "letters_first"
  THEN (IF i <= 3 THEN "L" ELSE IF i = 6 /\ n = 6 THEN "L" ELSE "D")
  ELSE (IF i <= 3 THEN "D" ELSE "L")

WithinBudget_OneMore(corrections, max_corrections) == corrections <= max_corrections

\* plate_normalizer.py 108, 118, 124, 141, 148: the budget test made before
\* every substitution
WithinBudget(corrections, max_corrections) == corrections < max_corrections

\* the loops of _apply_ocr_correction: positions i..last of `plate`, the
\* corrected string so far and the corrections counted so far
RECURSIVE CorrectFrom(_, _, _, _, _, _, _)
CorrectFrom(plate, tmpl, i, last, corrected, corrections, max_corrections) ==
  IF i > last THEN <<corrected, corrections>>
  ELSE LET c == plate[i]
           wrong == IF Expected(tmpl, i, Len(plate)) = "L"
                    THEN isdigit(c) /\ c \in DOMAIN OCR_CORRECTIONS
                    ELSE isalpha(c) /\ c \in DOMAIN OCR_CORRECTIONS
       IN  IF wrong /\ WithinBudget(corrections, max_corrections)
           THEN CorrectFrom(plate, tmpl, i + 1, last,
                            [corrected EXCEPT ![i] = OCR_CORRECTIONS[c]],
                            corrections + 1, max_corrections)
           ELSE CorrectFrom(plate, tmpl, i + 1, last, corrected, corrections,
                            max_corrections)

Min(a, b) == IF a <= b THEN a ELSE b
Max(a, b) == IF a >= b THEN a ELSE b

\* plate_normalizer.py 92-156: <<corrected plate, corrections>>
_apply_ocr_correction(plate0, max_corrections) ==
  IF plate0 = <<>> \/ Len(plate0) < 5 THEN <<plate0, 0>>
  ELSE
    LET plate == strip(upper(plate0))
        first == IF Len(plate) >= 5
                 THEN CorrectFrom(plate, "letters_first", 1, Min(6, Len(plate)),
                                  plate, 0, max_corrections)
                 ELSE <<plate, 0>>
        second == CorrectFrom(plate, "digits_first", 1, 6, plate, 0, max_corrections)
    IN  IF _is_valid_colombian_plate(first[1]) THEN first
        ELSE IF Len(plate) = 6 /\ _is_valid_colombian_plate(second[1]) THEN second
        ELSE <<plate, 0>>

\* Numbers: a reported confidence is held in hundredths (95 -> 9500,
\* 0.9 -> 90), a normalized confidence in ten-thousandths (0.95 -> 9500).
\* plate_normalizer.py 175-176
\* variant: a percentage above 100 is reduced modulo 100 instead of clamped
NormalizeConfidence_Wraps(confidence) ==
  LET c == IF confidence > 100 THEN confidence ELSE confidence * 100
  IN  Max(0, IF c > 10000 THEN c % 10000 ELSE c)

NormalizeConfidence(confidence) ==
  LET c == IF confidence > 100 THEN confidence ELSE confidence * 100
  IN  Max(0, Min(10000, c))

PlateNormalizationResult_NoReason(np, vt, valid, col, conf, ocr, reason) ==
  [normalized_plate |-> np, vehicle_type |-> vt, is_valid |-> valid,
   is_colombian |-> col, confidence_normalized |-> conf,
   ocr_corrections_applied |-> ocr, rejection_reason |-> "None"]

\* plate_normalizer.py 27-36
PlateNormalizationResult(np, vt, valid, col, conf, ocr, reason) ==
  [normalized_plate |-> np, vehicle_type |-> vt, is_valid |-> valid,
   is_colombian |-> col, confidence_normalized |-> conf,
   ocr_corrections_applied |-> ocr, rejection_reason |-> reason]

is_country_colombian_AbsentIsForeign(country) == country \in COLOMBIA_COUNTRY_CODES

\* plate_normalizer.py 213
is_country_colombian(country) ==
  country \in COLOMBIA_COUNTRY_CODES \/ country = NoneStr

Decision_CountryFirst(empty, low, format_ok, ocr_ok, foreign) ==
  IF empty THEN "empty"
  ELSE IF low THEN "confidence"
  ELSE IF foreign THEN "foreign"
  ELSE IF format_ok THEN "format_ok"
  ELSE IF ocr_ok THEN "ocr_ok"
  ELSE "format"

Decision_FormatFirst(empty, low, format_ok, ocr_ok, foreign) ==
  IF empty THEN "empty"
  ELSE IF format_ok THEN "format_ok"
  ELSE IF low THEN "confidence"
  ELSE IF ocr_ok THEN "ocr_ok"
  ELSE IF foreign THEN "foreign"
  ELSE "format"

Decision_ConfidenceFirst(empty, low, format_ok, ocr_ok, foreign) ==
  IF low THEN "confidence"
  ELSE IF empty THEN "empty"
  ELSE IF format_ok THEN "format_ok"
  ELSE IF ocr_ok THEN "ocr_ok"
  ELSE IF foreign THEN "foreign"
  ELSE "format"

\* plate_normalizer.py 184, 199, 216, 232, 247, 261: the order in which
\* normalize_neural_plate tests its conditions and the return it takes
Decision(empty, low, format_ok, ocr_ok, foreign) ==
  IF empty THEN "empty"
  ELSE IF low THEN "confidence"
  ELSE IF format_ok THEN "format_ok"
  ELSE IF ocr_ok THEN "ocr_ok"
  ELSE IF foreign THEN "foreign"
  ELSE "format"

\* plate_normalizer.py 159-269. config = [min_confidence_neural (percent, in
\* hundredths), reject_foreign_plates, max_ocr_corrections_neural].
\* plate_text is a string or NoneStr; country a string or NoneStr.
normalize_neural_plate(plate_text, confidence, country, vehicle_type, config) ==
  LET confidence_normalized == NormalizeConfidence(confidence)
      min_confidence == config.min_confidence_neural
      reject_foreign == config.reject_foreign_plates
      max_corrections == config.max_ocr_corrections_neural
      sentinels == {<<"u","n","k","n","o","w","n">>, <<"n","o","n","e">>, <<>>}
      empty == plate_text = NoneStr \/ plate_text = <<>>
               \/ lower(plate_text) \in sentinels
      plate_clean == remove(remove(strip(upper(plate_text)), " "), "-")
      is_format_colombian == _is_valid_colombian_plate(plate_clean)
      oc == _apply_ocr_correction(plate_clean, max_corrections)
      taken == Decision(empty, confidence_normalized < min_confidence,
                        ~empty /\ is_format_colombian,
                        ~empty /\ oc[2] > 0 /\ _is_valid_colombian_plate(oc[1]),
                        reject_foreign /\ ~is_country_colombian(country))
  IN
  CASE taken = "empty" ->
         PlateNormalizationResult(NoneStr, vehicle_type, FALSE, FALSE,
                                  confidence_normalized, 0, "empty")
    [] taken = "confidence" ->
         PlateNormalizationResult(plate_clean, vehicle_type, FALSE, FALSE,
                                  confidence_normalized, 0, "confidence")
    [] taken = "format_ok" ->
         PlateNormalizationResult(plate_clean, vehicle_type, TRUE, TRUE,
                                  confidence_normalized, 0, "None")
    [] taken = "ocr_ok" ->
         PlateNormalizationResult(oc[1], vehicle_type, TRUE, TRUE,
                                  confidence_normalized, oc[2], "None")
    [] taken = "foreign" ->
         PlateNormalizationResult(plate_clean, vehicle_type, FALSE, FALSE,
                                  confidence_normalized, 0, "foreign")
    [] taken = "format" ->
         PlateNormalizationResult(plate_clean, vehicle_type, FALSE, FALSE,
                                  confidence_normalized, 0, "format")

(* ------------------------- values and helpers -------------------------- *)
\* exceptions a write attempt can end with
AuthErrors  == {"InvalidPasswordError"}
OtherErrors == {"InterfaceError", "TimeoutError"}

\* the dict passed to save_event / save_rejected_plate_wh
NoPayload == [plate |-> NoneStr, image_url |-> None, vehicle_type |-> "None",
              rejection_type |-> "None", rejection_reason |-> "None"]
NoCall == [op |-> "none", no |-> 0, attempts |-> 0, cbCalls |-> 0,
           errs |-> <<>>, ids |-> <<>>, refreshed |-> "none",
           ret |-> None, ref |-> None, sawClosed |-> "no",
           payload |-> NoPayload]
NoCbl  == [fetches |-> 0, reauths |-> 0, fetched |-> 0, pw |-> 0,
           invalidated |-> FALSE,
           closing |-> None, wpool |-> None, direct |-> FALSE,
           outcome |-> "none"]
\* self._cache for the one secret name: the entry (value, fetched_at) when
\* present, and for the record whether an invalidation completed while the
\* fetch that delivered the entry was in flight (overlapped) and whether the
\* entry has been through an invalidation (stale)
EmptyCache == [present |-> FALSE, value |-> 0, fetched_at |-> 0,
               overlapped |-> FALSE, stale |-> FALSE]
\* the entry alone
Entry(c) == [present |-> c.present, value |-> c.value, fetched_at |-> c.fetched_at]

\* vault_secret_provider.py 161-170: invalidate / invalidate_all remove the
\* entry
\* variant: the entry is left in the cache
Invalidated_EntryKept(c) == [c EXCEPT !.stale = c.present]

Invalidated(c) == EmptyCache

\* vault_secret_provider.py 107 / 130: self._cache[name] = (value, time.time())
Cached(value, time, overlapped) ==
  [present |-> TRUE, value |-> value, fetched_at |-> time,
   overlapped |-> overlapped, stale |-> FALSE]

\* the fetches of get_secret that are awaited
FetchAwaits == {"cb_fetch1", "cb_fetch2", "fetch1", "fetch2"}
\* vault_secret_provider.py 26, 42-49: the two ways the provider signs
AuthTypes == {"instance_principal", "config_file"}
\* no call of get_secret by a caller of the provider
NoGs == [phase |-> "idle", no |-> 0, force |-> FALSE, why |-> "none",
         before |-> EmptyCache, fetches |-> 0, reauths |-> 0,
         first |-> "none", signer |-> "none", second |-> "none",
         fetched |-> 0, stored_at |-> 0, invalidated |-> FALSE, ret |-> 0]
\* no read call
NoRd == [phase |-> "idle", no |-> 0, op |-> "none", plate |-> NoneStr,
         ref |-> None, attempts |-> 0, cbCalls |-> 0, err |-> "none",
         rows |-> <<>>, total_events |-> 0, raised |-> FALSE,
         status |-> 0, total |-> 0]

\* database_service.py is_auth_error: the asyncpg authentication exception
\* types, or a message that contains "authentication failed"
is_auth_error(e) == e \in AuthErrors

\* a pool that accepts acquire(): asyncpg raises InterfaceError on a pool that
\* is closing or closed
PoolUsable(p) == p # None /\ poolState[p] = "open"

\* the tasks that hold a connection acquired from pool p
Holders(p) == {t \in Tasks : pc[t] \in {"exec1", "exec2"} /\ call[t].ref = p}

\* the read call in progress holds a connection acquired from pool p
ReaderHolds(p) == rd.phase = "query" /\ rd.ref = p

FreshPool == CHOOSE p \in PoolIds :
               /\ poolState[p] = "unborn"
               /\ \A q \in PoolIds : poolState[q] = "unborn" => p <= q

\* Pool.close(): new acquirers are refused from now on
BeginClose(ps, p) == IF p # None /\ ps[p] = "open"
                     THEN [ps EXCEPT ![p] = "closing"] ELSE ps
EndClose(ps, p) == IF p # None THEN [ps EXCEPT ![p] = "closed"] ELSE ps

\* config.py 62-70: the defaults of the normalization policy
DefaultConfig == [min_confidence_neural |-> 8500,
                  reject_foreign_plates |-> TRUE,
                  max_ocr_corrections_neural |-> 1]

\* a call of normalize_neural_plate that was not made
NoResult == PlateNormalizationResult(NoneStr, "None", FALSE, FALSE, 0, 0, "None")
NoNz == [phase |-> "idle", plate_text |-> NoneStr, confidence |-> 0,
         country |-> NoneStr, vehicle_type |-> "None", config |-> DefaultConfig,
         result |-> NoResult]

\* the response dict of process_webhook_event and its first return value
NoResp == [status |-> "none", events_created |-> 0, events_rejected |-> 0,
           event_id |-> None, total_events |-> 0, events |-> <<>>,
           rejections |-> <<>>]
NoInput == [body |-> "none", plate |-> NoneStr, confidence |-> 0,
            img |-> "none", evidences |-> <<>>]
\* stores: the store operations the request called, in call order
NoRq == [input |-> NoInput, no |-> 0, path |-> "none", slot |-> 0,
         saved |-> <<>>, uploads |-> <<>>, excs |-> {}, total_before |-> 0,
         stores |-> <<>>, resp |-> NoResp]

(* ------------------------------- Init ---------------------------------- *)
\* the state after initialize_services(): the secret was fetched once (when
\* the vault is enabled), both pools are open, the callback is registered
\* exactly when a vault provider exists (main.py 125-126)
InitStore ==
  /\ poolState = [p \in PoolIds |-> IF p \in {1, 2} THEN "open" ELSE "unborn"]
  /\ poolPw = [p \in PoolIds |-> 0]
  /\ write_pool = 1
  /\ read_pool = 2
  /\ db_total_events = 0
  /\ eventRows = <<>>
  /\ rejectedRows = <<>>
  /\ db_password = 0
  /\ serverPw = 0
  /\ vaultPw = 0
  /\ signerGen = 0

InitTasks ==
  /\ pc = [t \in Tasks |-> "idle"]
  /\ call = [t \in Tasks |-> NoCall]
  /\ cbl = [t \in Tasks |-> NoCbl]
  /\ nCalls = 0
  /\ rq = [t \in Tasks |-> NoRq]
  /\ proc_total_events = 0
  /\ last_event_time = None

\* main.py 62-67, 110-126: the vault provider exists, the secret is cached
\* and the callback is registered exactly when the vault is enabled
InitConfig(vault_enabled, strict) ==
  /\ strict_mode \in strict
  /\ \E v \in vault_enabled :
       /\ on_auth_error = IF v THEN "_handle_db_auth_error" ELSE "None"
       /\ cache = [EmptyCache EXCEPT !.present = v]

\* no call of the normalizer on its own is in progress
InitIdle ==
  /\ InitTasks
  /\ nz = NoNz
  /\ now = 0
  /\ auth_type = "instance_principal"
  /\ gs = NoGs
  /\ rd = NoRd

Init == InitConfig(BOOLEAN, {FALSE}) /\ InitStore /\ InitIdle

(* --------------------------- environment ------------------------------- *)
\* the administrator rotates the database password
RotatePassword ==
  /\ serverPw < MaxRotations
  /\ serverPw' = serverPw + 1
  /\ UNCHANGED <<db_password, vaultPw, storeVars, vaultVars, taskVars>>

\* the rotated password is published in the vault
PublishSecret ==
  /\ vaultPw # serverPw
  /\ vaultPw' = serverPw
  /\ UNCHANGED <<db_password, serverPw, storeVars, vaultVars, taskVars>>

(* ---------------- save_event / save_rejected_plate_wh ------------------ *)
\* The tails below are the code that runs, without suspension, after the
\* await that an action models completed. Each sets pc', call', cbl', cache'.

\* `return <id or None>` of save_event / save_rejected_plate_wh
Returns(t, c, id) ==
  /\ pc' = [pc EXCEPT ![t] = "returned"]
  /\ call' = [call EXCEPT ![t] = [c EXCEPT !.ret = id, !.ref = None]]
  /\ UNCHANGED <<cbl, cache>>

\* variant: the retry's result is not returned
ReturnedId_RetryDropped(attempt, id) == IF attempt = 2 THEN None ELSE id

\* database_service.py 250, 259 / 299, 308: `return await self._execute_...`
ReturnedId(attempt, id) == id

\* `self.on_auth_error` is truthy
Registered == on_auth_error # "None"

\* variant: the callback is invoked for every kind of error
InvokesCallback_AnyError(e) == Registered

\* database_service.py 252 / 301: `if self.is_auth_error(e) and self.on_auth_error`
InvokesCallback(e) == is_auth_error(e) /\ Registered

\* variants: the result of the callback is ignored
RetriesAfter_Never(refreshed) == FALSE
RetriesAfter_Always(refreshed) == TRUE

\* database_service.py 257 / 306: `if refreshed:`
RetriesAfter(refreshed) == refreshed

\* database_service.py 251-266 / 300-315: the first attempt raised e.
\* With the callback: main.py 83-93 up to the first await of the fetch
\* (invalidate_all, get_secret(force_refresh=True) -> _fetch_and_cache).
\* With another callable: up to the await of the callable (256 / 305).
AfterFirstFailure(t, c, e) ==
  IF InvokesCallback(e)
  THEN IF on_auth_error = "_handle_db_auth_error"
       THEN /\ pc' = [pc EXCEPT ![t] = "cb_fetch1"]
            /\ call' = [call EXCEPT ![t] = [c EXCEPT !.cbCalls = @ + 1, !.ref = None]]
            /\ cache' = Invalidated(cache)
            /\ cbl' = [u \in Tasks |->
                         IF u = t THEN [NoCbl EXCEPT !.fetches = 1]
                         ELSE IF pc[u] \in FetchAwaits
                              THEN [cbl[u] EXCEPT !.invalidated = TRUE]
                              ELSE cbl[u]]
       ELSE /\ pc' = [pc EXCEPT ![t] = "hook"]
            /\ call' = [call EXCEPT ![t] = [c EXCEPT !.cbCalls = @ + 1, !.ref = None]]
            /\ UNCHANGED <<cbl, cache>>
  ELSE Returns(t, c, None)

\* variant: a failed retry is handled like a failed first attempt
AfterRetryFailure_Again(t, c, e) ==
  IF c.attempts < 3 THEN AfterFirstFailure(t, c, e) ELSE Returns(t, c, None)

\* database_service.py 260-264 / 309-313: the retry raised: log, return None
AfterRetryFailure(t, c, e) == Returns(t, c, None)

AttemptFails(t, c, e) ==
  LET c2 == [c EXCEPT !.errs = Append(@, e), !.ids = Append(@, None)]
  IN  IF c.attempts = 1 THEN AfterFirstFailure(t, c2, e)
                        ELSE AfterRetryFailure(t, c2, e)

\* some task is inside recreate_pools
Recreating == \E u \in Tasks : pc[u] \in {"rc_wclose", "rc_rclose", "rc_wcreate", "rc_rcreate"}

\* _execute_save_event / _execute_save_rejected is entered: the pool
\* reference is read and a pool that is closing or closed refuses at once
BeginAttempt(t, c, ps) ==
  LET c2 == [c EXCEPT !.attempts = @ + 1]
  IN  IF write_pool # None /\ ps[write_pool] = "open"
      THEN /\ pc' = [pc EXCEPT ![t] = IF c2.attempts = 1 THEN "acq1" ELSE "acq2"]
           /\ call' = [call EXCEPT ![t] = [c2 EXCEPT !.ref = write_pool]]
           /\ UNCHANGED <<cbl, cache>>
      ELSE AttemptFails(t, [c2 EXCEPT !.sawClosed = IF Recreating THEN "recreating"
                                                                   ELSE "stale"],
                        "InterfaceError")

\* database_service.py 256-266: the callback returned `ok`
CallbackReturns(t, c, ok, ps) ==
  LET c2 == [c EXCEPT !.refreshed = IF ok THEN "true" ELSE "false"]
  IN  IF RetriesAfter(ok) THEN BeginAttempt(t, c2, ps)
                          ELSE Returns(t, c2, None)

\* a caller invokes save_event (op = "event") or save_rejected_plate_wh
StartCall(t, op) ==
  /\ pc[t] = "idle"
  /\ nCalls < MaxCalls
  /\ nCalls' = nCalls + 1
  /\ BeginAttempt(t, [NoCall EXCEPT !.op = op, !.no = nCalls + 1], poolState)
  /\ UNCHANGED <<storeVars, envVars, signerGen>>

\* what `async with self.write_pool.acquire()` can raise
ConnectErrors(p) ==
  IF poolState[p] # "open" THEN {"InterfaceError"}
  ELSE (IF poolPw[p] # serverPw THEN AuthErrors ELSE {}) \cup {"TimeoutError"}

\* database_service.py 214 / 270: the await of acquire() completes
Acquire(t) ==
  /\ pc[t] \in {"acq1", "acq2"}
  /\ \/ /\ poolState[call[t].ref] = "open"
        /\ pc' = [pc EXCEPT ![t] = IF pc[t] = "acq1" THEN "exec1" ELSE "exec2"]
        /\ UNCHANGED <<call, cbl, cache>>
     \/ \E e \in ConnectErrors(call[t].ref) : AttemptFails(t, call[t], e)
  /\ UNCHANGED <<storeVars, envVars, signerGen, nCalls>>

\* database_service.py 215-245 / 271-294: the INSERT ... RETURNING id ran
InsertRow(t) ==
  LET c  == call[t]
      id == IF c.op = "event" THEN Len(eventRows) + 1 ELSE Len(rejectedRows) + 1
      row == [id |-> id, no |-> c.no, data |-> c.payload]
  IN  /\ pc[t] \in {"exec1", "exec2"}
      /\ IF c.op = "event"
         THEN /\ eventRows' = Append(eventRows, row)
              /\ db_total_events' = IF id # None THEN db_total_events + 1
                                                 ELSE db_total_events
              /\ UNCHANGED rejectedRows
         ELSE /\ rejectedRows' = Append(rejectedRows, row)
              /\ UNCHANGED <<eventRows, db_total_events>>
      /\ Returns(t, [c EXCEPT !.errs = Append(@, "ok"), !.ids = Append(@, id)],
               ReturnedId(c.attempts, id))
      /\ UNCHANGED <<poolState, poolPw, write_pool, read_pool, outerVars,
                     envVars, signerGen, nCalls>>

\* the query raised (command_timeout, connection lost): no row
InsertFails(t) ==
  /\ pc[t] \in {"exec1", "exec2"}
  /\ AttemptFails(t, call[t], "TimeoutError")
  /\ UNCHANGED <<storeVars, envVars, signerGen, nCalls>>

\* database_service.py 256 / 305: `refreshed = await self.on_auth_error(e)`
\* with a callable other than _handle_db_auth_error: it returns a truthy or a
\* falsy value, or it raises; the await stands in the except clause, outside
\* any try, so what it raises leaves save_event / save_rejected_plate_wh
HookDone(t) ==
  /\ pc[t] = "hook"
  /\ \/ \E ok \in BOOLEAN : CallbackReturns(t, call[t], ok, poolState)
     \/ /\ pc' = [pc EXCEPT ![t] = "raised"]
        /\ call' = [call EXCEPT ![t].refreshed = "raised"]
        /\ UNCHANGED <<cbl, cache>>
  /\ UNCHANGED <<storeVars, envVars, signerGen, nCalls>>

\* the caller takes the result
Return(t) ==
  /\ pc[t] = "returned"
  /\ pc' = [pc EXCEPT ![t] = "idle"]
  /\ call' = [call EXCEPT ![t] = NoCall]
  /\ cbl' = [cbl EXCEPT ![t] = NoCbl]
  /\ UNCHANGED <<storeVars, envVars, vaultVars, nCalls>>

(* --------- _handle_db_auth_error, get_secret, recreate_pools ----------- *)
\* main.py 102-104: any exception inside the callback -> return False
CallbackFails(t) == CallbackReturns(t, call[t], FALSE, poolState)

\* vault_secret_provider.py 104-112 (and 127-134): the fetch returned the
\* secret: cache it; main.py 95: update the configured password; main.py 97,
\* database_service.py 175-176: recreate_pools starts closing the write pool
\* variant: the configured password is left as it was
FetchSucceeds_PasswordKept(t) ==
  /\ cache' = Cached(vaultPw, now, cbl[t].invalidated)
  /\ db_password' = db_password
  /\ poolState' = BeginClose(poolState, write_pool)
  /\ cbl' = [cbl EXCEPT ![t].fetched = vaultPw, ![t].closing = write_pool,
                        ![t].invalidated = FALSE]
  /\ pc' = [pc EXCEPT ![t] = "rc_wclose"]
  /\ UNCHANGED <<call, poolPw, write_pool, read_pool, db_total_events,
                 outerVars, eventRows, rejectedRows, serverPw, vaultPw,
                 signerGen, nCalls>>

FetchSucceeds(t) ==
  /\ cache' = Cached(vaultPw, now, cbl[t].invalidated)
  /\ db_password' = vaultPw
  /\ poolState' = BeginClose(poolState, write_pool)
  /\ cbl' = [cbl EXCEPT ![t].fetched = vaultPw, ![t].closing = write_pool,
                        ![t].invalidated = FALSE]
  /\ pc' = [pc EXCEPT ![t] = "rc_wclose"]
  /\ UNCHANGED <<call, poolPw, write_pool, read_pool, db_total_events,
                 outerVars, eventRows, rejectedRows, serverPw, vaultPw,
                 signerGen, nCalls>>

\* vault_secret_provider.py 146-147: _refresh_signer builds a new signer only
\* for an instance principal
RefreshesSigner == auth_type = "instance_principal"

\* vault_secret_provider.py 96-140: the first fetch completes
FetchDone1(t) ==
  /\ pc[t] = "cb_fetch1"
  /\ \/ FetchSucceeds(t)
     \/ \* ServiceError 401/403: refresh the signer (line 120), which
        \* returns at once for another auth_type (lines 146-147)
        /\ IF RefreshesSigner
           THEN /\ pc' = [pc EXCEPT ![t] = "cb_signer"]
                /\ cbl' = [cbl EXCEPT ![t].reauths = @ + 1]
           ELSE /\ pc' = [pc EXCEPT ![t] = "cb_fetch2"]
                /\ cbl' = [cbl EXCEPT ![t].fetches = @ + 1,
                                      ![t].invalidated = FALSE]
        /\ UNCHANGED <<call, cache, storeVars, envVars, signerGen, nCalls>>
     \/ \* any other error propagates (line 140)
        /\ CallbackFails(t)
        /\ UNCHANGED <<storeVars, envVars, signerGen, nCalls>>

\* vault_secret_provider.py 142-159: _refresh_signer completes
SignerDone(t) ==
  /\ pc[t] = "cb_signer"
  /\ \/ /\ signerGen' = signerGen + 1
        /\ pc' = [pc EXCEPT ![t] = "cb_fetch2"]
        /\ cbl' = [cbl EXCEPT ![t].fetches = @ + 1,
                              ![t].invalidated = FALSE]
        /\ UNCHANGED <<call, cache, storeVars, envVars, nCalls>>
     \/ /\ CallbackFails(t)
        /\ UNCHANGED <<storeVars, envVars, signerGen, nCalls>>

\* vault_secret_provider.py 121-134: the fetch after the re-authentication
FetchDone2(t) ==
  /\ pc[t] = "cb_fetch2"
  /\ \/ FetchSucceeds(t)
     \/ /\ CallbackFails(t)
        /\ UNCHANGED <<storeVars, envVars, signerGen, nCalls>>

\* recreate_pools returned (ok) or raised (~ok). Called from the callback
\* (main.py 97-104) the callback returns True or, from its except, False.
RecreateEnds(t, ok, ps) ==
  IF cbl[t].direct
  THEN /\ pc' = [pc EXCEPT ![t] = "idle"]
       /\ cbl' = [cbl EXCEPT ![t] = [NoCbl EXCEPT !.outcome = IF ok THEN "ok" ELSE "error"]]
       /\ UNCHANGED <<call, cache>>
  ELSE CallbackReturns(t, call[t], ok, ps)

\* database_service.py 176-179: write_pool.close() returned (it waits for
\* the connections in use); read_pool.close() starts
WriteCloseDone(t) ==
  /\ pc[t] = "rc_wclose"
  /\ Holders(cbl[t].closing) = {}
  /\ poolState' = BeginClose(EndClose(poolState, cbl[t].closing), read_pool)
  /\ cbl' = [cbl EXCEPT ![t].closing = read_pool]
  /\ pc' = [pc EXCEPT ![t] = "rc_rclose"]
  /\ UNCHANGED <<call, cache, poolPw, write_pool, read_pool, db_total_events,
                 outerVars, eventRows, rejectedRows, envVars, signerGen,
                 nCalls>>

\* variant: the read pool is not closed before it is replaced
ReadCloseDone_Skipped(t) ==
  /\ pc[t] = "rc_rclose"
  /\ poolState' = [poolState EXCEPT ![cbl[t].closing] = "open"]
  /\ cbl' = [cbl EXCEPT ![t].closing = None, ![t].pw = db_password]
  /\ pc' = [pc EXCEPT ![t] = "rc_wcreate"]
  /\ UNCHANGED <<call, cache, poolPw, write_pool, read_pool, db_total_events,
                 outerVars, eventRows, rejectedRows, envVars, signerGen,
                 nCalls>>

\* database_service.py 179-194: read_pool.close() returned; create_pool for
\* the write pool starts with the password configured now
ReadCloseDone(t) ==
  /\ pc[t] = "rc_rclose"
  /\ ~ReaderHolds(cbl[t].closing)
  /\ poolState' = EndClose(poolState, cbl[t].closing)
  /\ cbl' = [cbl EXCEPT ![t].closing = None, ![t].pw = db_password]
  /\ pc' = [pc EXCEPT ![t] = "rc_wcreate"]
  /\ UNCHANGED <<call, cache, poolPw, write_pool, read_pool, db_total_events,
                 outerVars, eventRows, rejectedRows, envVars, signerGen,
                 nCalls>>

\* asyncpg.create_pool connects min_size connections: it succeeds only with
\* the password the server accepts
CreateCanSucceed(pw) == pw = serverPw

\* database_service.py 182-209: the write pool was created and assigned;
\* create_pool for the read pool starts
WriteCreateDone(t) ==
  /\ pc[t] = "rc_wcreate"
  /\ \/ /\ CreateCanSucceed(cbl[t].pw)
        /\ poolState' = [poolState EXCEPT ![FreshPool] = "open"]
        /\ poolPw' = [poolPw EXCEPT ![FreshPool] = cbl[t].pw]
        /\ write_pool' = FreshPool
        /\ cbl' = [cbl EXCEPT ![t].pw = db_password, ![t].wpool = FreshPool]
        /\ pc' = [pc EXCEPT ![t] = "rc_rcreate"]
        /\ UNCHANGED <<call, cache, read_pool, db_total_events, outerVars,
                       eventRows, rejectedRows, envVars, signerGen, nCalls>>
     \/ /\ RecreateEnds(t, FALSE, poolState)
        /\ UNCHANGED <<storeVars, envVars, signerGen, nCalls>>

\* database_service.py 197-210, main.py 99-100: the read pool was created
\* and assigned, the callback returns True
ReadCreateDone(t) ==
  /\ pc[t] = "rc_rcreate"
  /\ \/ /\ CreateCanSucceed(cbl[t].pw)
        /\ poolState' = [poolState EXCEPT ![FreshPool] = "open"]
        /\ poolPw' = [poolPw EXCEPT ![FreshPool] = cbl[t].pw]
        /\ read_pool' = FreshPool
        /\ RecreateEnds(t, TRUE, poolState')
        /\ UNCHANGED <<write_pool, db_total_events, outerVars, eventRows,
                       rejectedRows, envVars, signerGen, nCalls>>
     \/ /\ RecreateEnds(t, FALSE, poolState)
        /\ UNCHANGED <<storeVars, envVars, signerGen, nCalls>>

\* a caller invokes recreate_pools directly (database_service.py 170-176)
RecreateStart(t) ==
  /\ pc[t] = "idle"
  /\ nCalls < MaxCalls
  /\ nCalls' = nCalls + 1
  /\ poolState' = BeginClose(poolState, write_pool)
  /\ cbl' = [cbl EXCEPT ![t] = [NoCbl EXCEPT !.direct = TRUE, !.closing = write_pool]]
  /\ pc' = [pc EXCEPT ![t] = "rc_wclose"]
  /\ UNCHANGED <<call, cache, poolPw, write_pool, read_pool, db_total_events,
                 outerVars, eventRows, rejectedRows, envVars, signerGen>>

\* config.py 158-161 update_db_password, with the secret read from the vault
UpdateDbPassword ==
  /\ db_password # vaultPw
  /\ db_password' = vaultPw
  /\ UNCHANGED <<serverPw, vaultPw, storeVars, vaultVars, taskVars>>

(* ------------- get_secret called by a caller of the provider ------------ *)
\* everything a call of get_secret, an invalidation or the clock leaves alone
providerRest == <<poolState, poolPw, write_pool, read_pool, db_total_events,
                  on_auth_error, strict_mode, rq, proc_total_events,
                  last_event_time, nz, auth_type, rd, eventRows, rejectedRows,
                  envVars, taskVars>>

\* vault_secret_provider.py 69-72: the cached entry is used
\* variant: an entry is used only when its age is more than one unit below
\* the time-to-live
CacheHit_Younger(force_refresh, entry, time) ==
  /\ ~force_refresh
  /\ entry.present
  /\ time - entry.fetched_at + 1 < _cache_ttl

\* variant: an entry whose age equals the time-to-live is still used
CacheHit_AtTTL(force_refresh, entry, time) ==
  /\ ~force_refresh
  /\ entry.present
  /\ time - entry.fetched_at <= _cache_ttl

CacheHit(force_refresh, entry, time) ==
  /\ ~force_refresh
  /\ entry.present
  /\ time - entry.fetched_at < _cache_ttl

\* why a call goes to the vault, for the record of the call
MissReason(force_refresh, entry, time) ==
  IF CacheHit(force_refresh, entry, time) THEN "hit"
  ELSE IF force_refresh THEN "forced"
  ELSE IF ~entry.present THEN "absent"
  ELSE "expired"

\* the clock advances
Tick ==
  /\ now < MaxTime
  /\ now' = now + 1
  /\ UNCHANGED <<poolState, poolPw, write_pool, read_pool, db_total_events,
                 on_auth_error, strict_mode, rq, proc_total_events,
                 last_event_time, nz, auth_type, gs, rd, eventRows,
                 rejectedRows, envVars, vaultVars, taskVars>>

\* vault_secret_provider.py 61-84: get_secret is called (the provider is
\* initialized); a hit returns at once, anything else starts the fetch
GetSecret(force_refresh) ==
  LET g == [NoGs EXCEPT !.no = gs.no + 1, !.force = force_refresh,
                        !.why = MissReason(force_refresh, cache, now),
                        !.before = cache]
  IN  /\ gs.phase \in {"idle", "returned", "raised"}
      /\ gs.no < MaxCalls
      /\ IF CacheHit(force_refresh, cache, now)
         THEN gs' = [g EXCEPT !.phase = "returned", !.ret = cache.value]
         ELSE gs' = [g EXCEPT !.phase = "fetch1", !.fetches = 1]
      /\ UNCHANGED <<poolState, poolPw, write_pool, read_pool, db_total_events,
                     on_auth_error, strict_mode, rq, proc_total_events,
                     last_event_time, nz, now, auth_type, rd, eventRows,
                     rejectedRows, envVars, vaultVars, taskVars>>

\* vault_secret_provider.py 104-112 / 127-134: the bundle arrived: decode,
\* cache (value, time.time()), return the value
StoreFetched(g) ==
  /\ cache' = Cached(vaultPw, now, g.invalidated)
  /\ gs' = [g EXCEPT !.phase = "returned", !.fetched = vaultPw,
                     !.stored_at = now, !.ret = vaultPw]

\* vault_secret_provider.py 114-123: what follows a 401/403 of the first
\* fetch: _refresh_signer, a no-op unless auth_type is instance_principal,
\* then the second fetch
\* variant: the second fetch is started without the signer being refreshed
AfterAuthFailure_NoRefresh(g) ==
  gs' = [g EXCEPT !.first = "auth", !.signer = "skipped",
                  !.phase = "fetch2", !.fetches = @ + 1,
                  !.invalidated = FALSE]

AfterAuthFailure(g) ==
  IF RefreshesSigner
  THEN gs' = [g EXCEPT !.first = "auth", !.phase = "signer", !.reauths = @ + 1]
  ELSE gs' = [g EXCEPT !.first = "auth", !.signer = "skipped",
                       !.phase = "fetch2", !.fetches = @ + 1,
                       !.invalidated = FALSE]

\* vault_secret_provider.py 96-140: the first fetch completes
GsFetchDone1 ==
  /\ gs.phase = "fetch1"
  /\ \/ /\ StoreFetched([gs EXCEPT !.first = "ok"])
        /\ UNCHANGED signerGen
     \/ \* ServiceError with status 401 or 403
        /\ AfterAuthFailure(gs)
        /\ UNCHANGED vaultVars
     \/ \* another ServiceError (line 140), or another exception: propagates
        /\ gs' = [gs EXCEPT !.first = "other", !.phase = "raised"]
        /\ UNCHANGED vaultVars
  /\ UNCHANGED <<providerRest, now>>

\* vault_secret_provider.py 149-159: the new signer was built, or building
\* it raised, which propagates out of get_secret
GsSignerDone ==
  /\ gs.phase = "signer"
  /\ \/ /\ signerGen' = signerGen + 1
        /\ gs' = [gs EXCEPT !.signer = "ok", !.phase = "fetch2",
                            !.fetches = @ + 1, !.invalidated = FALSE]
     \/ /\ gs' = [gs EXCEPT !.signer = "failed", !.phase = "raised"]
        /\ UNCHANGED signerGen
  /\ UNCHANGED <<providerRest, cache, now>>

\* vault_secret_provider.py 121-134: the second fetch completes; nothing
\* catches what it raises
GsFetchDone2 ==
  /\ gs.phase = "fetch2"
  /\ \/ StoreFetched([gs EXCEPT !.second = "ok"])
     \/ /\ gs' = [gs EXCEPT !.second = "failed", !.phase = "raised"]
        /\ UNCHANGED cache
  /\ UNCHANGED <<providerRest, signerGen, now>>

\* vault_secret_provider.py 161-165: invalidate(name) of a cached name
Invalidate ==
  /\ cache.present
  /\ cache' = Invalidated(cache)
  /\ gs' = [gs EXCEPT !.invalidated = @ \/ gs.phase \in FetchAwaits]
  /\ UNCHANGED <<poolState, poolPw, write_pool, read_pool, db_total_events,
                 on_auth_error, strict_mode, rq, proc_total_events,
                 last_event_time, nz, now, auth_type, rd, eventRows,
                 rejectedRows, envVars, signerGen, taskVars>>

\* vault_secret_provider.py 167-170: invalidate_all()
InvalidateAll ==
  /\ cache' = Invalidated(cache)
  /\ gs' = [gs EXCEPT !.invalidated = @ \/ gs.phase \in FetchAwaits]
  /\ UNCHANGED <<poolState, poolPw, write_pool, read_pool, db_total_events,
                 on_auth_error, strict_mode, rq, proc_total_events,
                 last_event_time, nz, now, auth_type, rd, eventRows,
                 rejectedRows, envVars, signerGen, taskVars>>

(* ---- get_recent_events, get_events_by_plate, get_event_stats ---------- *)
ReadOps == {"get_recent_events", "get_events_by_plate", "get_event_stats"}
\* the plate asked for by get_events_by_plate
ReadPlates == {<<"A", "B", "C", "1", "2", "3">>}

\* everything a read leaves alone
readRest == <<poolState, poolPw, write_pool, read_pool, db_total_events,
              on_auth_error, strict_mode, rq, proc_total_events,
              last_event_time, nz, now, auth_type, gs, eventRows,
              rejectedRows, envVars, vaultVars, taskVars>>

\* the rows of the table the SELECT of the operation matches
Matching(op, plate) ==
  {i \in 1..Len(eventRows) :
     op # "get_events_by_plate" \/ eventRows[i].data.plate = plate}

\* ORDER BY created_at DESC: the ids of the rows, the newest first
NewestFirst(S) ==
  CHOOSE q \in [1..Cardinality(S) -> S] :
    \A i, j \in 1..Cardinality(S) : i < j => q[i] > q[j]

\* main.py 327-345, 348-366, 369-394: the endpoint answers 200 with what the
\* store returned, or 500 when the store raised
Respond(r) ==
  [r EXCEPT !.phase = "responded",
            !.status = IF r.raised THEN 500 ELSE 200,
            !.total = Len(r.rows)]

\* database_service.py 358-360, 383-390, 436-438: `except Exception`: log,
\* return [] (or the statistics all zero)
\* variant: an authentication error invokes the callback and the read is
\* attempted once more, as the writes do
ReadFails_RetriesOnAuth(r, e) ==
  IF is_auth_error(e) /\ Registered /\ r.attempts = 1
  THEN rd' = [r EXCEPT !.phase = "acq", !.ref = read_pool,
                       !.attempts = @ + 1, !.cbCalls = @ + 1]
  ELSE rd' = Respond([r EXCEPT !.err = e, !.rows = <<>>, !.total_events = 0])

ReadFails(r, e) ==
  rd' = Respond([r EXCEPT !.err = e, !.rows = <<>>, !.total_events = 0])

\* an endpoint calls a read operation, which calls read_pool.acquire()
\* (database_service.py 320, 365, 396); read_pool is a pool ever since
\* initialize()
ReadStart(op, plate) ==
  /\ rd.phase \in {"idle", "responded"}
  /\ rd.no < MaxCalls
  /\ rd' = [NoRd EXCEPT !.no = rd.no + 1, !.op = op, !.plate = plate,
                        !.phase = "acq", !.ref = read_pool, !.attempts = 1]
  /\ UNCHANGED readRest

\* the await of acquire() completes
ReadAcquire ==
  /\ rd.phase = "acq"
  /\ \/ /\ poolState[rd.ref] = "open"
        /\ rd' = [rd EXCEPT !.phase = "query"]
     \/ \E e \in ConnectErrors(rd.ref) : ReadFails(rd, e)
  /\ UNCHANGED readRest

\* the await of fetch() / fetchrow() completes: the rows are returned to the
\* endpoint, or the query raised
ReadQuery ==
  /\ rd.phase = "query"
  /\ \/ rd' = Respond([rd EXCEPT
                 !.err = "ok",
                 !.rows = IF rd.op = "get_event_stats" THEN <<>>
                          ELSE NewestFirst(Matching(rd.op, rd.plate)),
                 !.total_events = IF rd.op = "get_event_stats"
                                  THEN Len(eventRows) ELSE 0])
     \/ ReadFails(rd, "TimeoutError")
  /\ UNCHANGED readRest

(* -------------- event_processor.py process_webhook_event --------------- *)
\* a confidence field float() cannot parse
Unparseable == -1
\* an Evidences field without a length (a number, null): len() raises
NotAList == <<"<notalist>">>

\* The request bodies of the model. body: "ok", "unreadable" (request.body()
\* raises) or "malformed" (json.loads raises, or the document is no object).
\* img / evidence item: "image" (decodable base64) or "none" (absent, empty
\* or undecodable: nothing to upload).
PipelinePlates == { <<"A","B","C","1","2","3">>, <<"A","8","C","1","2","3">>,
                    <<"X","1">>, <<"U","N","K","N","O","W","N">>, NonStr }
PipelineConfidences == {9500, 4000, Unparseable}
EvidenceLists ==
  {NotAList} \cup UNION {[1..n -> {"image", "none"}] : n \in 0..MaxEvidences}
AcceptablePlates == { <<"A","B","C","1","2","3">>, <<"A","8","C","1","2","3">> }
\* Evidences fields of at most one item, and the longest ones that end with
\* an image
ShortLists == {e \in EvidenceLists : Len(e) <= 1}
FullLists == {e \in EvidenceLists :
                e # NotAList /\ Len(e) = MaxEvidences /\ e[Len(e)] = "image"}
Inputs ==
  {[NoInput EXCEPT !.body = b] : b \in {"unreadable", "malformed"}}
  \cup {i \in [body : {"ok"}, plate : PipelinePlates,
               confidence : PipelineConfidences,
               img : {"none"}, evidences : {<<>>}] :
          i.confidence = 9500 \/ i.plate \in AcceptablePlates}
  \cup [body : {"ok"}, plate : {<<"A","B","C","1","2","3">>}, confidence : {9500},
        img : {"image", "none"}, evidences : ShortLists]
  \cup [body : {"ok"}, plate : {<<"A","B","C","1","2","3">>}, confidence : {9500},
        img : {"image"}, evidences : FullLists]

\* event_processor.py 53-56
ParseConfidence(confidence_str) ==
  IF confidence_str = Unparseable THEN 0 ELSE confidence_str

\* event_processor.py 58-59
CleanPlate(plate) ==
  IF plate = <<"U","N","K","N","O","W","N">> \/ plate = <<>> THEN NoneStr ELSE plate

\* event_processor.py 77-83 (Neural sends neither country nor vehicle type)
Result(inp) ==
  normalize_neural_plate(CleanPlate(inp.plate), ParseConfidence(inp.confidence),
                         NoneStr, "None", DefaultConfig)

\* plate_text.lower() on a value that is no string raises AttributeError
NormalizeRaises(inp) == CleanPlate(inp.plate) = NonStr

\* event_processor.py 280-286
_classify_rejection_type(result) ==
  IF result.confidence_normalized < DefaultConfig.min_confidence_neural
  THEN "confidence"
  ELSE IF ~result.is_colombian THEN "foreign_plate"
  ELSE "format"

\* the positions of a request that carry an image to upload: slot 1 is the
\* primary image, slot i + 1 is Evidences[i]
ImageSlots(inp) ==
  {i \in 1..(1 + Len(inp.evidences)) :
     IF i = 1 THEN inp.img = "image" ELSE inp.evidences[i - 1] = "image"}

NextAwait_LastFirst(inp, done) ==
  LET c == ImageSlots(inp) \ done
  IN  IF c = {} THEN 0 ELSE CHOOSE i \in c : \A j \in c : i >= j

\* event_processor.py 131-164: the next upload that is awaited when the
\* slots in `done` were handled: the primary image, then the evidences in
\* array order; 0 when none is left
NextAwait(inp, done) ==
  LET c == ImageSlots(inp) \ done
  IN  IF c = {} THEN 0 ELSE CHOOSE i \in c : \A j \in c : i <= j

\* event_processor.py 236-242: the outer `except Exception`
ErrorResponse == [NoResp EXCEPT !.status = "error"]

\* an exception that leaves process_webhook_event
Raise_Propagates(t, r, phase) ==
  /\ pc' = [pc EXCEPT ![t] = "raised"]
  /\ rq' = [rq EXCEPT ![t] = [r EXCEPT !.path = "error", !.excs = @ \cup {phase}]]
  /\ UNCHANGED <<call, cbl, cache, proc_total_events, last_event_time>>

\* an exception reached the outer handler while the request was in `phase`
Raise(t, r, phase) ==
  /\ pc' = [pc EXCEPT ![t] = "responded"]
  /\ rq' = [rq EXCEPT ![t] = [r EXCEPT !.path = "error", !.excs = @ \cup {phase},
                                      !.resp = ErrorResponse]]
  /\ UNCHANGED <<call, cbl, cache, proc_total_events, last_event_time>>

CountedEvents_All(created, rejected) == Len(created) + Len(rejected)

\* event_processor.py 210: self._total_events += len(created_events)
CountedEvents(created, rejected) == Len(created)

\* event_processor.py 211: self._last_event_time = datetime.now(timezone.utc)
ClockRead(r, created, rejected) == r.no

\* event_processor.py 206-234: counters, response dict, first_event_id
BuildResponse(t, r, created, rejected) ==
  LET total == proc_total_events + CountedEvents(created, rejected)
  IN  /\ proc_total_events' = total
      /\ last_event_time' = ClockRead(r, created, rejected)
      /\ pc' = [pc EXCEPT ![t] = "responded"]
      /\ rq' = [rq EXCEPT ![t] =
                  [r EXCEPT !.total_before = proc_total_events,
                            !.resp = [status |-> "ok",
                                      events_created |-> Len(created),
                                      events_rejected |-> Len(rejected),
                                      event_id |-> IF created # <<>>
                                                   THEN created[1].event_id ELSE None,
                                      total_events |-> total,
                                      events |-> created,
                                      rejections |-> rejected]]]

\* event_processor.py 116-122
RejectedEntry(r) ==
  [raw_plate |-> CleanPlate(r.input.plate),
   confidence |-> Result(r.input).confidence_normalized,
   rejection_reason |-> Result(r.input).rejection_reason]

\* event_processor.py 195-202
CreatedEntry(r, event_id) ==
  [event_id |-> event_id, image_urls |-> r.saved,
   normalized_plate |-> Result(r.input).normalized_plate,
   ocr_corrections |-> Result(r.input).ocr_corrections_applied]

CreatedList_OnlyWithId(r, event_id) ==
  IF event_id = None THEN <<>> ELSE <<CreatedEntry(r, event_id)>>

\* event_processor.py 69, 195: created_events after the accept branch; the
\* entry is appended whatever save_event returned
CreatedList(r, event_id) == <<CreatedEntry(r, event_id)>>

PersistsRejection_Always(strict) == TRUE

\* event_processor.py 94: the rejection is saved unless strict_mode is set
PersistsRejection(strict) == ~strict

SavedAfter_KeepsFailed(saved, slot, ok) == Append(saved, slot)

\* event_processor.py 136-141 / 156-161: saved_images.append runs only when
\* save_image returned; the URL of slot i is modelled by i
SavedAfter(saved, slot, ok) == IF ok THEN Append(saved, slot) ELSE saved

\* event_processor.py 96-111: the dict passed to save_rejected_plate_wh
RejectionPayload(r) ==
  [NoPayload EXCEPT !.plate = CleanPlate(r.input.plate),
                    !.rejection_type = _classify_rejection_type(Result(r.input)),
                    !.rejection_reason = Result(r.input).rejection_reason]

\* event_processor.py 172-191: the dict passed to save_event
EventPayload(r) ==
  [NoPayload EXCEPT !.plate = Result(r.input).normalized_plate,
                    !.image_url = IF r.saved # <<>> THEN r.saved[1] ELSE None,
                    !.vehicle_type = Result(r.input).vehicle_type]

\* event_processor.py 131-193: after slot from - 1 was handled: await the
\* next upload, or build the record and call save_event
Proceed(t, r) ==
  LET n == NextAwait(r.input, {r.uploads[i].slot : i \in DOMAIN r.uploads})
  IN  IF n > 0
      THEN /\ pc' = [pc EXCEPT ![t] = "p_upload"]
           /\ rq' = [rq EXCEPT ![t] = [r EXCEPT !.slot = n]]
           /\ UNCHANGED <<call, cbl, cache, proc_total_events, last_event_time>>
      ELSE /\ BeginAttempt(t, [NoCall EXCEPT !.op = "event", !.no = r.no,
                                             !.payload = EventPayload(r)],
                           poolState)
           /\ rq' = [rq EXCEPT ![t] = [r EXCEPT !.stores = Append(@, "event")]]
           /\ UNCHANGED <<proc_total_events, last_event_time>>

\* a camera posts an event: process_webhook_event awaits request.body()
Receive(t, inp) ==
  /\ pc[t] = "idle"
  /\ nCalls < MaxCalls
  /\ nCalls' = nCalls + 1
  /\ pc' = [pc EXCEPT ![t] = "p_body"]
  /\ rq' = [rq EXCEPT ![t] = [NoRq EXCEPT !.input = inp, !.no = nCalls + 1]]
  /\ UNCHANGED <<poolState, poolPw, write_pool, read_pool, db_total_events,
                 on_auth_error, strict_mode, nz, now, auth_type, gs, rd,
                 proc_total_events, last_event_time,
                 eventRows, rejectedRows, envVars, vaultVars, call, cbl>>

\* event_processor.py 39-128: the body arrived; decode, normalize, branch
BodyRead(t) ==
  LET r == rq[t]
      inp == r.input
  IN  /\ pc[t] = "p_body"
      /\ IF inp.body = "unreadable" THEN Raise(t, r, "body")
         ELSE IF inp.body = "malformed" THEN Raise(t, r, "decode")
         ELSE IF inp.evidences = NotAList THEN Raise(t, r, "extract")
         ELSE IF NormalizeRaises(inp) THEN Raise(t, r, "normalize")
         ELSE IF ~Result(inp).is_valid
         THEN IF PersistsRejection(strict_mode)
              THEN /\ BeginAttempt(t, [NoCall EXCEPT !.op = "rejected", !.no = r.no,
                                       !.payload = RejectionPayload(r)], poolState)
                   /\ rq' = [rq EXCEPT ![t].path = "reject",
                                        ![t].stores = Append(@, "rejected")]
                   /\ UNCHANGED <<proc_total_events, last_event_time>>
              ELSE /\ BuildResponse(t, [r EXCEPT !.path = "reject"], <<>>,
                                    <<RejectedEntry(r)>>)
                   /\ UNCHANGED <<call, cbl, cache>>
         ELSE Proceed(t, [r EXCEPT !.path = "accept"])
      /\ UNCHANGED <<poolState, poolPw, write_pool, read_pool, db_total_events,
                     on_auth_error, strict_mode, nz, now, auth_type, gs, rd,
                 eventRows, rejectedRows,
                     envVars, signerGen, nCalls>>

\* event_processor.py 136-144 / 156-164: storage_service.save_image returned
\* (ok) or raised (logged, the image is skipped)
UploadDone(t) ==
  LET r == rq[t] IN
  /\ pc[t] = "p_upload"
  /\ \E ok \in BOOLEAN :
       Proceed(t, [r EXCEPT !.saved = SavedAfter(@, r.slot, ok),
                            !.uploads = Append(@, [slot |-> r.slot, ok |-> ok]),
                            !.excs = IF ok THEN @ ELSE @ \cup {"upload"}])
  /\ UNCHANGED <<poolState, poolPw, write_pool, read_pool, db_total_events,
                 on_auth_error, strict_mode, nz, now, auth_type, gs, rd,
                 eventRows, rejectedRows,
                 envVars, signerGen, nCalls>>

\* event_processor.py 112-122 / 193-234: the store call returned
AfterStore(t) ==
  LET r == [rq[t] EXCEPT !.excs = IF \E i \in DOMAIN call[t].errs : call[t].errs[i] # "ok"
                                  THEN @ \cup {"persist"} ELSE @]
  IN  /\ pc[t] = "returned"
      /\ IF call[t].op = "rejected"
         THEN BuildResponse(t, r, <<>>, <<RejectedEntry(r)>>)
         ELSE BuildResponse(t, r, CreatedList(r, call[t].ret), <<>>)
      /\ UNCHANGED <<poolState, poolPw, write_pool, read_pool, db_total_events,
                     on_auth_error, strict_mode, nz, now, auth_type, gs, rd,
                 eventRows, rejectedRows,
                     envVars, vaultVars, call, cbl, nCalls>>

\* the endpoint sends the response (main.py 243-254)
Deliver(t) ==
  /\ pc[t] = "responded"
  /\ pc' = [pc EXCEPT ![t] = "idle"]
  /\ rq' = [rq EXCEPT ![t] = NoRq]
  /\ call' = [call EXCEPT ![t] = NoCall]
  /\ cbl' = [cbl EXCEPT ![t] = NoCbl]
  /\ UNCHANGED <<poolState, poolPw, write_pool, read_pool, db_total_events,
                 on_auth_error, strict_mode, nz, now, auth_type, gs, rd,
                 proc_total_events, last_event_time,
                 eventRows, rejectedRows, envVars, vaultVars, nCalls>>

(* --------------------------- specification ----------------------------- *)
TaskStep(t) ==
  \/ \E op \in {"event", "rejected"} : StartCall(t, op)
  \/ Acquire(t)
  \/ InsertRow(t)
  \/ InsertFails(t)
  \/ FetchDone1(t)
  \/ SignerDone(t)
  \/ FetchDone2(t)
  \/ WriteCloseDone(t)
  \/ ReadCloseDone(t)
  \/ WriteCreateDone(t)
  \/ ReadCreateDone(t)
  \/ Return(t)

Next ==
  \/ RotatePassword
  \/ PublishSecret
  \/ \E t \in Tasks : TaskStep(t)

Spec == Init /\ [][Next]_vars

\* recreate_pools called again and again by one caller, nothing else running
NextRecreate ==
  \/ RotatePassword
  \/ PublishSecret
  \/ UpdateDbPassword
  \/ RecreateStart(1)
  \/ WriteCloseDone(1)
  \/ ReadCloseDone(1)
  \/ WriteCreateDone(1)
  \/ ReadCreateDone(1)

\* the webhook: requests handled one after the other by the processor, the
\* store and the callback underneath
PipeTasks == {1}

PipelineStep(t) ==
  \/ \E inp \in Inputs : Receive(t, inp)
  \/ BodyRead(t)
  \/ UploadDone(t)
  \/ Acquire(t)
  \/ InsertRow(t)
  \/ InsertFails(t)
  \/ FetchDone1(t)
  \/ SignerDone(t)
  \/ FetchDone2(t)
  \/ WriteCloseDone(t)
  \/ ReadCloseDone(t)
  \/ WriteCreateDone(t)
  \/ ReadCreateDone(t)
  \/ AfterStore(t)
  \/ Deliver(t)

NextPipeline ==
  \/ RotatePassword
  \/ PublishSecret
  \/ \E t \in PipeTasks : PipelineStep(t)

InitPipeline == InitConfig(BOOLEAN, BOOLEAN) /\ InitStore /\ InitIdle

SpecPipeline == InitPipeline /\ [][NextPipeline]_vars

InitRecreate == InitConfig({FALSE}, {FALSE}) /\ InitStore /\ InitIdle

SpecRecreate == InitRecreate /\ [][NextRecreate]_vars

(* ------------- normalize_neural_plate called on its own --------------- *)
\* The plate texts of the model: absent, empty and sentinel texts, the four
\* domestic shapes (also in lower case, with blanks and dashes), texts one
\* or two OCR confusions away from a shape, texts of no shape, and texts
\* with a line feed before a trailing dash.
NzPlates ==
  { NoneStr, <<>>, <<" ">>,
    <<"u","n","k","n","o","w","n">>, <<"U","N","K","N","O","W","N">>,
    <<"U","n","k","n","o","w","n">>, <<"n","o","n","e">>, <<"N","O","N","E">>,
    <<"A","B","C","1","2","3">>, <<"a","b","c","1","2","3">>,
    <<"A","B","C","-","1","2","3">>, <<" ","A","B","C"," ","1","2","3"," ">>,
    <<"X","Y","Z","9","9","9">>,
    <<"A","B","C","1","2","D">>, <<"A","B","C","1","2">>,
    <<"1","2","3","A","B","C">>,
    <<"A","8","C","1","2","3">>, <<"A","B","C","I","2","3">>,
    <<"8","8","C","1","2","3">>, <<"A","B","C","1","S">>,
    <<"1","Z","3","A","B","C">>, <<"A","B","C","O","O","5">>,
    <<"X","1">>, <<"A","B","C","D","E","F">>, <<"A","B","C","1","2","3","4">>,
    <<"A","B","#","1","2","3">>,
    <<"A","B","C","1","2","3","\n","-">>, <<"A","8","C","1","2","3","\n","-">>,
    <<"A","8","C","1","2","1">> }
\* reported confidences, in hundredths: fractions (0.5, 0.85, 1.0),
\* percentages (40, 84.99, 85, 95, 100, 150) and a negative value
NzConfidences == {-100, 0, 50, 85, 100, 4000, 8499, 8500, 9500, 10000, 15000}
\* reported country: absent, Colombia, empty, United States
NzCountries == {NoneStr, <<"1","7","0">>, <<>>, <<"8","4","0">>}
\* declared vehicle type
NzVehicleTypes == {"None", "carro", "camion"}
NzConfigs == [min_confidence_neural : {8500, 5000},
              reject_foreign_plates : BOOLEAN,
              max_ocr_corrections_neural : {0, 1, 2}]
NzInputs == {[NoNz EXCEPT !.phase = "called", !.plate_text = p, !.confidence = c,
                          !.country = k, !.vehicle_type = v, !.config = g] :
               p \in NzPlates, c \in NzConfidences, k \in NzCountries,
               v \in NzVehicleTypes, g \in NzConfigs}

\* normalize_neural_plate returns
Normalize ==
  /\ nz.phase = "called"
  /\ nz' = [nz EXCEPT !.phase = "returned",
                      !.result = normalize_neural_plate(nz.plate_text, nz.confidence,
                                   nz.country, nz.vehicle_type, nz.config)]
  /\ UNCHANGED <<poolState, poolPw, write_pool, read_pool, db_total_events,
                 on_auth_error, strict_mode, rq, proc_total_events,
                 last_event_time, now, auth_type, gs, rd, eventRows,
                 rejectedRows, envVars, vaultVars, taskVars>>

NextNormalizer == Normalize

InitNormalizer ==
  /\ InitConfig({FALSE}, {FALSE}) /\ InitStore /\ InitTasks
  /\ nz \in NzInputs
  /\ now = 0
  /\ auth_type = "instance_principal"
  /\ gs = NoGs
  /\ rd = NoRd

SpecNormalizer == InitNormalizer /\ [][NextNormalizer]_vars

(* ------------------ the provider used on its own ----------------------- *)
NextVault ==
  \/ Tick
  \/ RotatePassword
  \/ PublishSecret
  \/ \E f \in BOOLEAN : GetSecret(f)
  \/ GsFetchDone1
  \/ GsSignerDone
  \/ GsFetchDone2
  \/ Invalidate
  \/ InvalidateAll

InitVault ==
  /\ InitConfig({TRUE}, {FALSE}) /\ InitStore /\ InitTasks
  /\ nz = NoNz
  /\ now = 0
  /\ auth_type \in AuthTypes
  /\ gs = NoGs
  /\ rd = NoRd

SpecVault == InitVault /\ [][NextVault]_vars

(* ------------- the reads, next to one writer and the rotation ----------- *)
NextRead ==
  \/ RotatePassword
  \/ PublishSecret
  \/ TaskStep(1)
  \/ \E op \in ReadOps, plate \in ReadPlates : ReadStart(op, plate)
  \/ ReadAcquire
  \/ ReadQuery

SpecRead == Init /\ [][NextRead]_vars

(* ------------- the store with a callback supplied by its owner ---------- *)
HookStep(t) ==
  \/ \E op \in {"event", "rejected"} : StartCall(t, op)
  \/ Acquire(t)
  \/ InsertRow(t)
  \/ InsertFails(t)
  \/ HookDone(t)
  \/ Return(t)

NextHook ==
  \/ RotatePassword
  \/ \E t \in Tasks : HookStep(t)

InitHook ==
  /\ on_auth_error = "callable"
  /\ strict_mode = FALSE
  /\ cache = EmptyCache
  /\ InitStore /\ InitIdle

SpecHook == InitHook /\ [][NextHook]_vars

(* ======================= properties of the store ======================= *)
Finished(t) == pc[t] = "returned"
FirstFailed(t) == Len(call[t].errs) >= 1 /\ call[t].errs[1] # "ok"
RowsOf(rows, no) == {i \in 1..Len(rows) : rows[i].no = no}

\* C1: save_event with the callback registered: when the first insert
\* attempt fails with an authentication error and the callback reports
\* refreshed = true, exactly one further attempt is made, and when that
\* attempt succeeds save_event returns the id the second attempt produced.
C1_RetryOnceAndReturnSecondId ==
  \A t \in Tasks :
    ( /\ Finished(t) /\ call[t].op = "event" /\ Registered
      /\ FirstFailed(t) /\ is_auth_error(call[t].errs[1])
      /\ call[t].refreshed = "true" )
    => /\ call[t].attempts = 2
       /\ Len(call[t].errs) = 2
       /\ call[t].errs[2] = "ok" =>
            /\ call[t].ret = call[t].ids[2]
            /\ call[t].ret # None
            /\ \E i \in RowsOf(eventRows, call[t].no) : eventRows[i].id = call[t].ret

C1_Witness ==
  \E t \in Tasks :
    /\ Finished(t) /\ call[t].op = "event"
    /\ call[t].errs = <<"InvalidPasswordError", "ok">>
    /\ call[t].refreshed = "true" /\ call[t].ret # None

\* C2: save_event and save_rejected_plate_wh: when the first attempt fails
\* with an authentication error and the callback reports refreshed = false,
\* no second attempt is made and the operation returns no id.
C2_NoRetryWhenNotRefreshed ==
  \A t \in Tasks :
    ( /\ Finished(t) /\ FirstFailed(t) /\ is_auth_error(call[t].errs[1])
      /\ call[t].refreshed = "false" )
    => /\ call[t].attempts = 1
       /\ call[t].ret = None

C2_Witness ==
  \E t, u \in Tasks :
    /\ Finished(t) /\ call[t].op = "event" /\ call[t].refreshed = "false"
    /\ Finished(u) /\ call[u].op = "rejected" /\ call[u].refreshed = "false"

\* C3: in every call of save_event or save_rejected_plate_wh, whatever the
\* database and the callback do, at most two insert attempts are made and
\* the callback is invoked at most once.
C3_AtMostTwoAttemptsOneCallback ==
  \A t \in Tasks : call[t].attempts <= 2 /\ call[t].cbCalls <= 1

\* an authentication error on the second attempt too
C3_Witness ==
  \E t \in Tasks :
    /\ Finished(t)
    /\ call[t].errs = <<"InvalidPasswordError", "InvalidPasswordError">>
    /\ call[t].cbCalls = 1

\* C4: when the first attempt fails with a non-authentication error, or no
\* callback is registered, the callback is not invoked, exactly one insert
\* attempt is made and the operation returns no id.
C4_NoCallbackNoRetry ==
  \A t \in Tasks :
    ( /\ Finished(t) /\ FirstFailed(t)
      /\ (~is_auth_error(call[t].errs[1]) \/ ~Registered) )
    => /\ call[t].cbCalls = 0
       /\ call[t].attempts = 1
       /\ call[t].ret = None

C4_Witness ==
  \E t \in Tasks :
    /\ Finished(t) /\ ~Registered
    /\ call[t].errs = <<"InvalidPasswordError">>

\* C5: one save_event call inserts at most one row into the accepted
\* detections; exactly one row (carrying the returned id) when it returns an
\* id, and no row when it returns no id.
C5_NoLossNoDuplicate ==
  /\ \A no \in 1..nCalls : Cardinality(RowsOf(eventRows, no)) <= 1
  /\ \A t \in Tasks :
       (Finished(t) /\ call[t].op = "event") =>
         IF call[t].ret # None
         THEN /\ Cardinality(RowsOf(eventRows, call[t].no)) = 1
              /\ \A i \in RowsOf(eventRows, call[t].no) : eventRows[i].id = call[t].ret
         ELSE RowsOf(eventRows, call[t].no) = {}

C5_Witness ==
  \E t \in Tasks :
    /\ Finished(t) /\ call[t].op = "event"
    /\ call[t].errs = <<"InvalidPasswordError", "ok">>
    /\ Cardinality(RowsOf(eventRows, call[t].no)) = 1

\* C6: while recreate_pools runs, a write operation that starts acquiring a
\* connection never observes a write_pool reference that points to a pool
\* that is already closed (or closing).
C6_SwapAtomicForAcquirers ==
  \A t \in Tasks : call[t].sawClosed # "recreating"

\* C7: pool recreation is idempotent: recreate_pools called twice in a row
\* leaves no pool open except the current write pool and read pool, and a
\* call whose create_pool calls succeed ends normally with both current
\* pools open (closing the pools a previous call left closed raises nothing).
C7_RecreateIdempotentNoLeak ==
  pc[1] = "idle" =>
    /\ \A p \in PoolIds :
         poolState[p] \in {"open", "closing"} => p \in {write_pool, read_pool}
    /\ cbl[1].outcome = "ok" =>
         poolState[write_pool] = "open" /\ poolState[read_pool] = "open"

\* two calls in a row, both successful: pools 1-4 closed, 5 and 6 current
C7_Witness ==
  /\ pc[1] = "idle" /\ nCalls = 2 /\ cbl[1].outcome = "ok"
  /\ write_pool = 5 /\ read_pool = 6
  /\ \A p \in 1..4 : poolState[p] = "closed"

(* ------------------- properties of the secret provider ------------------ *)
\* a step that is a call of get_secret, and a call that has ended
GsCalled == gs'.no = gs.no + 1
GsEnded == gs.phase \in {"returned", "raised"}
\* the cache holds an entry younger than its time-to-live
FreshEntry == cache.present /\ now - cache.fetched_at < _cache_ttl

\* C25: a call of get_secret with force_refresh false, made while the cache
\* holds an entry whose age is below the time-to-live, returns the cached
\* value at once, starts no fetch and leaves the cache as it was.
C25_HitReturnsCached ==
  [][(GsCalled /\ ~gs'.force /\ FreshEntry)
       => /\ gs'.phase = "returned"
          /\ gs'.ret = cache.value
          /\ gs'.fetches = 0
          /\ cache' = cache]_vars

\* the second call within the window: the entry has aged, the vault already
\* holds another value, the cached one is returned
C25_Witness ==
  /\ gs.phase = "returned"
  /\ gs.no = 2
  /\ gs.why = "hit"
  /\ gs.fetches = 0
  /\ now - cache.fetched_at >= 1
  /\ gs.ret = cache.value
  /\ gs.ret # vaultPw

\* C26: a call of get_secret made when the entry is absent (after an
\* invalidation), with force_refresh true, or when the entry's age is at or
\* above the time-to-live starts the fetch; when the fetch delivers, the
\* value it delivered is stored with the current time and is the value
\* returned, whatever was cached before.
C26_MissFetchesAndStores ==
  [][/\ (GsCalled /\ (gs'.force \/ ~FreshEntry))
          => (gs'.phase = "fetch1" /\ gs'.fetches = 1)
     /\ (gs.phase \in {"fetch1", "fetch2"} /\ gs'.phase = "returned")
          => /\ gs'.ret = vaultPw
             /\ Entry(cache') = [present |-> TRUE, value |-> vaultPw,
                                 fetched_at |-> now]]_vars

\* an expired entry was replaced by a different, freshly fetched value
C26_Witness ==
  /\ gs.phase = "returned"
  /\ gs.why = "expired"
  /\ now - gs.before.fetched_at = _cache_ttl
  /\ gs.ret # gs.before.value
  /\ Entry(cache) = [present |-> TRUE, value |-> gs.ret, fetched_at |-> now]

\* C27 as stated: after a 401/403 of the first fetch exactly one
\* re-authentication and exactly one more fetch happen, a failure of the
\* second fetch propagates; another error of the first fetch propagates with
\* no re-authentication and no second fetch; never more than two fetches.
C27_OneReauthThenOneFetch ==
  /\ gs.fetches <= 2
  /\ (GsEnded /\ gs.first = "auth")
       => /\ gs.reauths = 1
          /\ gs.fetches = 2
          /\ (gs.second = "failed" => gs.phase = "raised")
  /\ (GsEnded /\ gs.first = "other")
       => (gs.phase = "raised" /\ gs.reauths = 0 /\ gs.fetches = 1)

\* C27: after a 401/403 of the first fetch the signer is refreshed once when
\* the provider authenticates as an instance principal and not at all
\* otherwise; when the refresh fails its error propagates and no second fetch
\* is made, otherwise exactly one more fetch is made and its failure
\* propagates; another error of the first fetch propagates with no
\* re-authentication and no second fetch; never more than two fetches.
C27_ReauthThenOneFetchUnlessReauthFails ==
  /\ gs.fetches <= 2
  /\ gs.reauths <= 1
  /\ (GsEnded /\ gs.first = "auth")
       => /\ gs.reauths = (IF auth_type = "instance_principal" THEN 1 ELSE 0)
          /\ (gs.signer = "failed" => (gs.phase = "raised" /\ gs.fetches = 1))
          /\ (gs.signer # "failed" => gs.fetches = 2)
          /\ (gs.second = "failed" => gs.phase = "raised")
  /\ (GsEnded /\ gs.first = "other")
       => (gs.phase = "raised" /\ gs.reauths = 0 /\ gs.fetches = 1)

\* the signer was refreshed once and the second fetch delivered the secret
C27_Witness ==
  /\ gs.phase = "returned"
  /\ gs.first = "auth"
  /\ gs.signer = "ok"
  /\ gs.second = "ok"
  /\ gs.reauths = 1
  /\ gs.fetches = 2
  /\ signerGen = 1

\* a call of get_secret has returned the entry it found in the cache
GsHit == gs.phase = "returned" /\ gs.why = "hit"

\* C33 as stated: the value a call of get_secret returns from the cache was
\* delivered by a fetch started after every invalidation that had completed
\* when the call was made; a fetch in flight at an invalidation does not put
\* its value in the cache.
C33_NoValueFetchedBeforeInvalidation ==
  /\ GsHit => (~gs.before.overlapped /\ ~gs.before.stale)
  /\ cache.present => (~cache.overlapped /\ ~cache.stale)

\* C33: the value a call of get_secret returns from the cache was stored
\* after every invalidation that had completed when the call was made (the
\* fetch that delivered it may have been in flight at an invalidation); a
\* call that fetches returns what the fetch it started delivered.
C33_NoValueStoredBeforeInvalidation ==
  /\ GsHit => ~gs.before.stale
  /\ cache.present => ~cache.stale
  /\ (gs.phase = "returned" /\ gs.why # "hit")
       => (gs.fetches >= 1 /\ gs.ret = gs.fetched)

\* the cache was emptied, a call fetched again, and the next call returned
\* the new entry from the cache
C33_Witness ==
  /\ GsHit
  /\ gs.no = 2
  /\ ~gs.before.overlapped
  /\ ~gs.before.stale
  /\ gs.before.fetched_at >= 1
  /\ gs.ret # 0

(* ------------------- properties of the recovery callback ---------------- *)
\* steps of task t: the callback is entered, its fetch delivers, it returns
CallbackEntered(t) == pc[t] # "cb_fetch1" /\ pc'[t] = "cb_fetch1"
CallbackFetched(t) == pc[t] \in {"cb_fetch1", "cb_fetch2"} /\ pc'[t] = "rc_wclose"
CallbackReturned(t, r) == call[t].refreshed = "none" /\ call'[t].refreshed = r
\* the places of the callback where an await can raise
CallbackAwaits == {"cb_fetch1", "cb_signer", "cb_fetch2", "rc_wcreate", "rc_rcreate"}

\* the order of the steps and the result of the callback (the first three
\* clauses of C30): the cache is emptied before the fetch starts; the
\* configured password is set to the fetched value, and the pools are
\* untouched by this recovery, until the fetch has delivered; True is
\* returned only from the creation of the read pool, the last step, after
\* the write pool was created; False is returned from a step that failed,
\* to the store, which goes on.
CallbackInOrder(t) ==
  /\ CallbackEntered(t) => (~cache'.present /\ cbl'[t].fetches = 1)
  /\ CallbackFetched(t)
       => /\ cbl'[t].fetched = vaultPw
          /\ cache'.value = cbl'[t].fetched
          /\ db_password' = cbl'[t].fetched
          /\ cbl[t].closing = None /\ cbl[t].wpool = None
          /\ cbl'[t].closing = write_pool
  /\ CallbackReturned(t, "true")
       => /\ pc[t] = "rc_rcreate"
          /\ cbl[t].fetches >= 1
          /\ cbl[t].wpool # None
          /\ poolState'[read_pool'] = "open"
          /\ read_pool' # read_pool
  /\ CallbackReturned(t, "false")
       => /\ pc[t] \in CallbackAwaits
          /\ pc'[t] = "returned"
          /\ call'[t].ret = None

\* C30 as stated: the steps run in the order invalidate, fetch, update,
\* recreate; True only when every step succeeded, False without raising when
\* one failed; and the pools a successful recovery created are opened with
\* the credential that same recovery fetched.
C30_PoolsOpenedWithOwnFetch ==
  [][\A t \in Tasks :
       /\ CallbackInOrder(t)
       /\ CallbackReturned(t, "true")
            => /\ poolPw'[cbl[t].wpool] = cbl[t].fetched
               /\ poolPw'[read_pool'] = cbl[t].fetched]_vars

\* C30: the same order and results; the pools a successful recovery created
\* are opened with the password configured when each is created, which is
\* the credential that recovery fetched or a later one that a concurrent
\* recovery fetched and configured in between.
C30_PoolsOpenedWithConfigured ==
  [][\A t \in Tasks :
       /\ CallbackInOrder(t)
       /\ CallbackReturned(t, "true")
            => /\ poolPw'[cbl[t].wpool] >= cbl[t].fetched
               /\ poolPw'[cbl[t].wpool] <= db_password'
               /\ poolPw'[read_pool'] >= poolPw'[cbl[t].wpool]
               /\ poolPw'[read_pool'] <= db_password']_vars

\* a recovery that fetched a rotated credential returned True, and its retry
\* then stored the row
C30_Witness ==
  \E t \in Tasks :
    /\ call[t].refreshed = "true"
    /\ cbl[t].fetched = 1
    /\ cbl[t].wpool # None
    /\ poolPw[cbl[t].wpool] = 1
    /\ call[t].errs = <<"InvalidPasswordError", "ok">>

\* C31: once no recreate_pools is in progress, whether the last one succeeded
\* or failed, neither write_pool nor read_pool refers to a closed pool, so a
\* later write is not refused by the pool itself.
C31_FailedRecoveryLeavesPoolsUsable ==
  ~Recreating => /\ poolState[write_pool] # "closed"
                 /\ poolState[read_pool] # "closed"

\* some task is inside the recovery callback (its fetch or its recreate_pools)
Recovering ==
  \E u \in Tasks : pc[u] \in {"cb_fetch1", "cb_signer", "cb_fetch2", "rc_wclose",
                              "rc_rclose", "rc_wcreate", "rc_rcreate"}

\* C32: when the recoveries of concurrent writers overlap, once all of them
\* have finished every pool that was opened and is neither the current
\* write_pool nor the current read_pool has been closed.
C32_OverlappingRecoveriesLeakNoPool ==
  ~Recovering =>
    \A p \in PoolIds :
      (poolState[p] # "unborn" /\ p \notin {write_pool, read_pool})
        => poolState[p] = "closed"

ReadFailed == rd.phase = "responded" /\ rd.err # "ok"
\* what the caller of the endpoint sees of a read
Observed(r) == [raised |-> r.raised, status |-> r.status, rows |-> r.rows,
                total_events |-> r.total_events]
\* what it sees of a read that succeeded and found nothing
ObservedEmpty == [raised |-> FALSE, status |-> 200, rows |-> <<>>,
                  total_events |-> 0]

\* C28: a read makes at most one database attempt and never invokes the
\* on_auth_error callback: no step of a read, failing with an authentication
\* error or not, acquires a second time, nor touches the secret cache, the
\* signer, the configured password, the pools or a recovery in progress.
C28_ReadsNeverRetried ==
  [][(rd' # rd) => /\ rd'.attempts <= 1
                   /\ rd'.cbCalls = 0
                   /\ (is_auth_error(rd'.err) => rd'.phase = "responded")
                   /\ UNCHANGED <<cache, signerGen, db_password, poolState,
                                  write_pool, read_pool, pc, cbl>>]_vars

\* a read failed with an authentication error while the callback the writes
\* use was registered
C28_Witness ==
  /\ ReadFailed
  /\ is_auth_error(rd.err)
  /\ Registered
  /\ rd.attempts = 1
  /\ rd.cbCalls = 0

\* C29: when the database call of a read fails, the caller is given
\* something that differs from what a successful read with no rows gives.
C29_ReadFailureSurfaces == ReadFailed => Observed(rd) # ObservedEmpty

(* ------------------- properties of the event pipeline ------------------- *)
Responded(t) == pc[t] = "responded"
\* the exceptions only the outer handler of process_webhook_event catches
OuterExcs == {"body", "decode", "extract", "normalize"}
\* the step in which process_webhook_event builds its response
Responds(t) == pc[t] # "responded" /\ pc'[t] = "responded"

\* C8 (as stated): process_webhook_event never propagates an exception; a
\* validation rejection yields a status-ok response, and any exception raised
\* while decoding, normalizing, uploading or persisting yields a response
\* with status "error" and no event id.
C8_AnyExceptionGivesErrorResponse ==
  \A t \in PipeTasks :
    /\ pc[t] # "raised"
    /\ Responded(t) =>
         /\ rq[t].path = "reject" => rq[t].resp.status = "ok"
         /\ rq[t].excs # {} =>
              rq[t].resp.status = "error" /\ rq[t].resp.event_id = None

\* C8 (amended): process_webhook_event never propagates an exception; a
\* validation rejection yields a status-ok response (also when saving the
\* rejection failed); an exception raised while reading or decoding the
\* body, extracting the fields or normalizing yields a response with status
\* "error" and no event id; an exception raised by an upload or inside the
\* store is handled where it occurs and the response has status "ok" (with
\* no event id when save_event returned none).
C8_NeverPropagates ==
  \A t \in PipeTasks :
    /\ pc[t] # "raised"
    /\ Responded(t) =>
         /\ rq[t].path = "reject" => rq[t].resp.status = "ok"
         /\ rq[t].excs \cap OuterExcs # {} =>
              rq[t].resp.status = "error" /\ rq[t].resp.event_id = None
         /\ (rq[t].excs # {} /\ rq[t].excs \subseteq {"upload", "persist"}) =>
              /\ rq[t].resp.status = "ok"
              /\ rq[t].resp.event_id = IF rq[t].path = "accept" THEN call[t].ret
                                                              ELSE None

\* a plate that is no string made the normalizer raise: error response
C8_Witness ==
  \E t \in PipeTasks :
    /\ Responded(t)
    /\ rq[t].excs = {"normalize"}
    /\ rq[t].resp.status = "error" /\ rq[t].resp.event_id = None

\* C9: when save_event returns no id on the accept path, the response
\* reports the event as not created: events_created is 0, the created-events
\* list has no entry, and the running total is not incremented.
C9_NoIdMeansNotCreated ==
  \A t \in PipeTasks :
    (Responded(t) /\ rq[t].path = "accept" /\ call[t].ret = None) =>
      /\ rq[t].resp.events_created = 0
      /\ rq[t].resp.events = <<>>
      /\ proc_total_events = rq[t].total_before

\* C10 (as stated): a request that takes the reject path leaves both the
\* running counter and the last event time unchanged.
C10_RejectLeavesBothUnchanged ==
  [][\A t \in PipeTasks :
       (Responds(t) /\ rq'[t].path = "reject") =>
         /\ proc_total_events' = proc_total_events
         /\ last_event_time' = last_event_time]_vars

\* C10 (amended): the running counter changes only on the accept path: a
\* request that takes the reject path leaves _total_events unchanged, but
\* sets _last_event_time to the time of that request, as every status-ok
\* response does; a request answered with status "error" leaves both
\* unchanged, and no other step changes either.
C10_RejectLeavesTotalUnchanged ==
  [][/\ \A t \in PipeTasks :
          /\ (Responds(t) /\ rq'[t].path = "reject") =>
               /\ proc_total_events' = proc_total_events
               /\ last_event_time' = rq'[t].no
               /\ last_event_time' # last_event_time
          /\ (Responds(t) /\ rq'[t].path = "error") =>
               /\ proc_total_events' = proc_total_events
               /\ last_event_time' = last_event_time
     /\ (\A t \in PipeTasks : ~Responds(t)) =>
          /\ proc_total_events' = proc_total_events
          /\ last_event_time' = last_event_time]_vars

\* an accepted request was counted, then a rejected one was answered
C10_Witness ==
  \E t \in PipeTasks :
    /\ Responded(t) /\ rq[t].path = "reject" /\ rq[t].no = 2
    /\ rq[t].total_before = 1 /\ proc_total_events = 1
    /\ last_event_time = 2

\* C11: on the reject path save_rejected_plate_wh is called exactly once
\* when strict_mode is false (leaving one rejection row when it returns an
\* id and none when it fails) and never when strict_mode is true; in both
\* cases the response lists the rejection, also when the call failed.
C11_RejectionPersistedUnlessStrict ==
  \A t \in PipeTasks :
    (Responded(t) /\ rq[t].path = "reject") =>
      /\ rq[t].stores = IF strict_mode THEN <<>> ELSE <<"rejected">>
      /\ Cardinality(RowsOf(rejectedRows, rq[t].no)) =
           IF ~strict_mode /\ call[t].ret # None THEN 1 ELSE 0
      /\ rq[t].resp.events_rejected = 1
      /\ rq[t].resp.rejections = <<RejectedEntry(rq[t])>>

\* the rejection could not be saved and is still reported
C11_Witness ==
  \E t \in PipeTasks :
    /\ Responded(t) /\ rq[t].path = "reject" /\ ~strict_mode
    /\ rq[t].stores = <<"rejected">> /\ call[t].ret = None
    /\ Len(call[t].errs) >= 1
    /\ Len(rq[t].resp.rejections) = 1

\* C12: the two branches are exclusive: a request with an invalid result
\* makes no upload and no save_event call (and leaves no event row), a
\* request with a valid result makes no save_rejected_plate_wh call (and
\* leaves no rejection row); every status-ok response has
\* events_created + events_rejected = 1.
C12_BranchesExclusive ==
  \A t \in PipeTasks :
    /\ rq[t].path = "reject" =>
         /\ rq[t].uploads = <<>> /\ rq[t].saved = <<>>
         /\ \A i \in DOMAIN rq[t].stores : rq[t].stores[i] # "event"
         /\ RowsOf(eventRows, rq[t].no) = {}
    /\ rq[t].path = "accept" =>
         /\ \A i \in DOMAIN rq[t].stores : rq[t].stores[i] # "rejected"
         /\ RowsOf(rejectedRows, rq[t].no) = {}
    /\ (Responded(t) /\ rq[t].resp.status = "ok") =>
         rq[t].resp.events_created + rq[t].resp.events_rejected = 1

\* an accepted request whose save_event returned no id: still one event
C12_Witness ==
  \E t \in PipeTasks :
    /\ Responded(t) /\ rq[t].path = "accept" /\ rq[t].resp.status = "ok"
    /\ call[t].ret = None /\ rq[t].uploads # <<>>
    /\ rq[t].resp.events_created = 1 /\ rq[t].resp.events_rejected = 0

UploadedSlots(r) == {r.uploads[i].slot : i \in DOMAIN r.uploads}
SaveEventCalled(r) == \E i \in DOMAIN r.stores : r.stores[i] = "event"

\* C13: within one accepted event every upload has completed (successfully
\* or not) before save_event is called, the primary image is uploaded before
\* any secondary evidence, and the secondary evidences are uploaded in their
\* array order.
C13_UploadsOrderedBeforeSave ==
  \A t \in PipeTasks :
    LET r == rq[t] IN
    /\ \A i, j \in DOMAIN r.uploads : i < j => r.uploads[i].slot < r.uploads[j].slot
    /\ pc[t] = "p_upload" =>
         /\ ~SaveEventCalled(r)
         /\ r.slot \in ImageSlots(r.input)
         /\ \A s \in UploadedSlots(r) : s < r.slot
         /\ \A s \in ImageSlots(r.input) : s < r.slot => s \in UploadedSlots(r)
    /\ SaveEventCalled(r) => UploadedSlots(r) = ImageSlots(r.input)

\* the primary image and two evidences were uploaded, then save_event ran
C13_Witness ==
  \E t \in PipeTasks :
    /\ SaveEventCalled(rq[t])
    /\ Len(rq[t].uploads) = 3
    /\ rq[t].uploads[1].slot = 1 /\ rq[t].uploads[2].slot = 2
    /\ rq[t].uploads[3].slot = 3

\* the slots whose upload returned a URL, in upload order
SucceededSlots(r) ==
  LET oks == SelectSeq(r.uploads, LAMBDA u : u.ok)
  IN  [i \in 1..Len(oks) |-> oks[i].slot]

\* C14: a failed upload (primary or secondary, any subset) does not abort
\* the event: every image of the request is still attempted, save_event is
\* called exactly once, and the saved-image list holds exactly the images
\* whose upload succeeded (the failed ones are absent).
C14_UploadFailureDoesNotAbort ==
  \A t \in PipeTasks :
    LET r == rq[t] IN
    /\ r.path = "accept" => r.saved = SucceededSlots(r)
    /\ (Responded(t) /\ r.path = "accept") =>
         /\ UploadedSlots(r) = ImageSlots(r.input)
         /\ r.stores = <<"event">>
         /\ r.resp.status = "ok"
         /\ r.resp.events[1].image_urls = SucceededSlots(r)
         /\ \A i \in DOMAIN r.uploads :
              ~r.uploads[i].ok =>
                 \A j \in DOMAIN r.saved : r.saved[j] # r.uploads[i].slot

\* the primary image and the second evidence failed, the first evidence was
\* saved, and save_event was called
C14_Witness ==
  \E t \in PipeTasks :
    /\ Responded(t) /\ rq[t].path = "accept"
    /\ rq[t].uploads = << [slot |-> 1, ok |-> FALSE], [slot |-> 2, ok |-> TRUE],
                          [slot |-> 3, ok |-> FALSE] >>
    /\ rq[t].saved = <<2>>
    /\ rq[t].stores = <<"event">>

\* the evidence URIs the record passed to save_event carries
\* (event_processor.py 175-191: only image_url)
RecordURIs(payload) == IF payload.image_url = None THEN {} ELSE {payload.image_url}

\* C15: the record passed to save_event contains every URI that a
\* successful upload of that event returned.
C15_RecordEmbedsAllURIs ==
  \A t \in PipeTasks :
    (SaveEventCalled(rq[t]) /\ call[t].op = "event") =>
      \A i \in DOMAIN rq[t].saved : rq[t].saved[i] \in RecordURIs(call[t].payload)

\* C36: whenever no request is being processed, the session counter of the
\* processor equals the session counter of the store, and both equal the
\* number of events inserted.
C36_CountersAgree ==
  (\A t \in Tasks : pc[t] = "idle")
    => /\ proc_total_events = db_total_events
       /\ db_total_events = Len(eventRows)

(* --------------------- properties of the normalizer -------------------- *)
Normalized == nz.phase = "returned"
\* plate_normalizer.py 184: the emptiness check
IsEmptyText(plate_text) ==
  \/ plate_text = NoneStr \/ plate_text = <<>>
  \/ lower(plate_text) \in {<<"u","n","k","n","o","w","n">>, <<"n","o","n","e">>}
\* plate_normalizer.py 196: the cleaned plate text
CleanText(plate_text) == remove(remove(strip(upper(plate_text)), " "), "-")
\* one of the four domestic shapes
DomesticShapes == {"carro", "moto_nueva", "moto_antigua", "motocarro"}

\* C16: for every output of normalize_neural_plate, is_valid holds if and
\* only if rejection_reason is absent, and is_valid implies that
\* normalized_plate is present.
C16_ValidIffNoReason ==
  Normalized =>
    /\ nz.result.is_valid <=> nz.result.rejection_reason = "None"
    /\ nz.result.is_valid => nz.result.normalized_plate \notin {NoneStr, <<>>}

\* an OCR-corrected plate: valid, no reason, the corrected text
C16_Witness ==
  /\ Normalized
  /\ nz.plate_text = <<"A","8","C","1","2","3">>
  /\ nz.result.is_valid /\ nz.result.rejection_reason = "None"
  /\ nz.result.normalized_plate = <<"A","B","C","1","2","3">>

\* C17: format takes precedence over country: when the cleaned plate text
\* matches one of the four domestic shapes and the normalized confidence is
\* at or above the minimum, the plate is accepted with is_colombian = true
\* and zero corrections for every reported country, also a foreign code with
\* reject_foreign_plates = true.
C17_FormatBeforeCountry ==
  ( /\ Normalized
    /\ ~IsEmptyText(nz.plate_text)
    /\ _get_plate_format(CleanText(nz.plate_text)) \in DomesticShapes
    /\ NormalizeConfidence(nz.confidence) >= nz.config.min_confidence_neural )
  => /\ nz.result.is_valid /\ nz.result.is_colombian
     /\ nz.result.ocr_corrections_applied = 0
     /\ nz.result.normalized_plate = CleanText(nz.plate_text)

\* XYZ999 at 95 reported from the United States, foreign plates rejected
C17_Witness ==
  /\ Normalized
  /\ nz.plate_text = <<"X","Y","Z","9","9","9">> /\ nz.confidence = 9500
  /\ nz.country = <<"8","4","0">> /\ nz.config.reject_foreign_plates
  /\ nz.result.is_valid /\ nz.result.is_colombian

\* C18: the confidence gate precedes format classification: for every plate
\* text that passes the emptiness check, a normalized confidence below the
\* configured minimum gives a rejection with the confidence reason and the
\* cleaned plate text, also when the text matches a domestic shape or could
\* be corrected.
C18_ConfidenceGateFirst ==
  ( /\ Normalized
    /\ ~IsEmptyText(nz.plate_text)
    /\ NormalizeConfidence(nz.confidence) < nz.config.min_confidence_neural )
  => /\ ~nz.result.is_valid
     /\ nz.result.rejection_reason = "confidence"
     /\ nz.result.normalized_plate = CleanText(nz.plate_text)
     /\ nz.result.ocr_corrections_applied = 0

\* ABC123 at 40 against a minimum of 85
C18_Witness ==
  /\ Normalized
  /\ nz.plate_text = <<"A","B","C","1","2","3">> /\ nz.confidence = 4000
  /\ nz.config.min_confidence_neural = 8500
  /\ nz.result.rejection_reason = "confidence"
  /\ nz.result.normalized_plate = <<"A","B","C","1","2","3">>

\* C19: a plate text that is absent, empty, or case-insensitively equal to
\* "unknown" or "none" is rejected with the empty/unknown reason and an
\* absent normalized_plate for every confidence, also one below the minimum.
C19_EmptyBeforeConfidence ==
  (Normalized /\ IsEmptyText(nz.plate_text)) =>
     /\ ~nz.result.is_valid
     /\ nz.result.rejection_reason = "empty"
     /\ nz.result.normalized_plate = NoneStr

\* "Unknown" at 40 against a minimum of 85
C19_Witness ==
  /\ Normalized
  /\ nz.plate_text = <<"U","n","k","n","o","w","n">> /\ nz.confidence = 4000
  /\ nz.config.min_confidence_neural = 8500
  /\ nz.result.rejection_reason = "empty"

\* C20: for every accepted plate the result's vehicle_type is the tag of the
\* first domestic shape the normalized plate matches, whatever declared
\* vehicle type was passed in.
C20_VehicleTypeFromShape ==
  (Normalized /\ nz.result.is_valid) =>
     nz.result.vehicle_type = _get_plate_format(nz.result.normalized_plate)

\* the positions at which two strings of the same length differ
DiffPositions(a, b) == {i \in 1..Min(Len(a), Len(b)) : a[i] # b[i]}

\* C21: when a plate is accepted through OCR correction,
\* ocr_corrections_applied is the number of positions at which
\* normalized_plate differs from the cleaned input, every differing position
\* pairs a character with its partner in the confusion table, and the length
\* is unchanged.
C21_CorrectionCountIsDiff ==
  (Normalized /\ nz.result.is_valid /\ nz.result.ocr_corrections_applied > 0) =>
    LET cleaned == CleanText(nz.plate_text)
        np == nz.result.normalized_plate
    IN  /\ Len(np) = Len(cleaned)
        /\ Cardinality(DiffPositions(np, cleaned)) = nz.result.ocr_corrections_applied
        /\ \A i \in DiffPositions(np, cleaned) :
             /\ cleaned[i] \in DOMAIN OCR_CORRECTIONS
             /\ np[i] = OCR_CORRECTIONS[cleaned[i]]

\* the plate text passes the emptiness check, the confidence gate and fails
\* the direct format check
NeedsCorrection ==
  /\ ~IsEmptyText(nz.plate_text)
  /\ NormalizeConfidence(nz.confidence) >= nz.config.min_confidence_neural
  /\ ~_is_valid_colombian_plate(CleanText(nz.plate_text))

\* C22: the correction budget is respected for every input and every
\* max_corrections >= 0: ocr_corrections_applied never exceeds
\* max_corrections, a plate accepted by correction has at least one
\* substitution, and with max_corrections = 0 no plate that fails the direct
\* format check is accepted.
C22_BudgetRespected ==
  Normalized =>
    /\ nz.result.ocr_corrections_applied <= nz.config.max_ocr_corrections_neural
    /\ nz.result.ocr_corrections_applied >= 0
    /\ (nz.result.is_valid /\ NeedsCorrection) =>
          nz.result.ocr_corrections_applied >= 1
    /\ (nz.config.max_ocr_corrections_neural = 0 /\ NeedsCorrection) =>
          ~nz.result.is_valid

\* ABCOO5 needs two substitutions: accepted as ABC005 with a budget of 2
C22_Witness ==
  /\ Normalized
  /\ nz.plate_text = <<"A","B","C","O","O","5">>
  /\ nz.config.max_ocr_corrections_neural = 2
  /\ nz.result.is_valid /\ nz.result.ocr_corrections_applied = 2
  /\ nz.result.normalized_plate = <<"A","B","C","0","0","5">>

\* the text is neither a domestic shape nor corrected into one
NotCorrectable ==
  /\ NeedsCorrection
  /\ LET oc == _apply_ocr_correction(CleanText(nz.plate_text),
                                     nz.config.max_ocr_corrections_neural)
     IN  ~(oc[2] > 0 /\ _is_valid_colombian_plate(oc[1]))

\* C23: for a plate with sufficient confidence that neither matches a
\* domestic shape nor is correctable into one, the reason is "foreign plate"
\* exactly when reject_foreign_plates is true and the reported country is
\* none of the domestic codes (170, 210, empty, absent), and "invalid format"
\* in every other case.
C23_ForeignOrFormat ==
  (Normalized /\ NotCorrectable) =>
    /\ ~nz.result.is_valid
    /\ nz.result.rejection_reason =
         IF /\ nz.config.reject_foreign_plates
            /\ nz.country \notin {<<"1","7","0">>, <<"2","1","0">>, <<>>, NoneStr}
         THEN "foreign" ELSE "format"

\* a text of no shape with an absent country, foreign plates rejected
C23_Witness ==
  /\ Normalized /\ NotCorrectable
  /\ nz.plate_text = <<"A","B","C","D","E","F">>
  /\ nz.country = NoneStr /\ nz.config.reject_foreign_plates
  /\ nz.result.rejection_reason = "format"

\* C24: the rejection type persisted by the pipeline is one of confidence,
\* foreign-format, format and follows the normalization result: confidence
\* when the normalized confidence is below the threshold, otherwise
\* foreign-format for a rejection with the foreign-plate reason, otherwise
\* format (an invalid-format rejection with sufficient confidence is stored
\* with type format).
C24_RejectionTypeFollowsResult ==
  \A t \in PipeTasks :
    \A i \in RowsOf(rejectedRows, rq[t].no) :
      LET result == Result(rq[t].input) IN
      rejectedRows[i].data.rejection_type =
        IF result.confidence_normalized < DefaultConfig.min_confidence_neural
        THEN "confidence"
        ELSE IF result.rejection_reason = "foreign" THEN "foreign_plate"
        ELSE "format"

\* the call in nz repeated with another reported confidence is accepted
AcceptedAt(c) ==
  normalize_neural_plate(nz.plate_text, c, nz.country, nz.vehicle_type,
                         nz.config).is_valid
\* line 175: a reported confidence above 1.0 is read as a percentage, one at
\* or below 1.0 as a fraction
ReadAsPercentage(c) == c > 100

\* C35 as stated: a detection accepted at a reported confidence is accepted
\* at every higher one, fractions and percentages alike.
C35_AcceptanceMonotone ==
  (Normalized /\ nz.result.is_valid)
    => \A c \in NzConfidences : c >= nz.confidence => AcceptedAt(c)

\* C35: a detection accepted at a reported confidence is accepted at every
\* higher one that is read the same way: both above 1.0 (percentages, up to
\* 100 and beyond) or both at or below 1.0 (fractions).
C35_AcceptanceMonotoneWithinReading ==
  (Normalized /\ nz.result.is_valid)
    => \A c \in NzConfidences :
         (c >= nz.confidence /\ ReadAsPercentage(c) = ReadAsPercentage(nz.confidence))
           => AcceptedAt(c)

\* accepted at exactly the threshold, and at 150 reported by a faulty device
C35_Witness ==
  /\ Normalized
  /\ nz.result.is_valid
  /\ nz.confidence = 8500
  /\ nz.config.min_confidence_neural = 8500
  /\ AcceptedAt(15000)
  /\ ~AcceptedAt(8499)


\* the text itself has one of the four domestic shapes
HasDomesticShape(text) ==
  \/ Len(text) = 6 /\ Shape(text, "L", <<"D","D","D">>)
  \/ Len(text) = 6 /\ Shape(text, "L", <<"D","D","L">>)
  \/ Len(text) = 5 /\ Shape(text, "L", <<"D","D">>)
  \/ Len(text) = 6 /\ Shape(text, "D", <<"L","L","L">>)

\* the text with its characters at the positions in S replaced by their
\* partners in the confusion table
Substituted(text, S) ==
  [i \in 1..Len(text) |-> IF i \in S THEN OCR_CORRECTIONS[text[i]] ELSE text[i]]

\* the sets of positions whose substitution turns the text into one of the
\* four domestic shapes
Repairs(text) ==
  {S \in SUBSET {i \in 1..Len(text) : text[i] \in DOMAIN OCR_CORRECTIONS} :
     HasDomesticShape(Substituted(text, S))}

\* C37: for every max_corrections >= 1, when a plate is accepted through OCR
\* correction the recorded ocr_corrections_applied is the minimum number of
\* confusion-table substitutions that turns the cleaned text into any of the
\* four domestic shapes.
C37_CorrectionCountIsMinimal ==
  (Normalized /\ nz.result.is_valid /\ nz.result.ocr_corrections_applied > 0
     /\ nz.config.max_ocr_corrections_neural >= 1) =>
    LET cleaned == CleanText(nz.plate_text)
    IN  /\ Repairs(cleaned) # {}
        /\ \A S \in Repairs(cleaned) :
             nz.result.ocr_corrections_applied <= Cardinality(S)


\* normalize_neural_plate applied again to an accepted normalized_plate, with
\* the same confidence, country, vehicle type and policy
Renormalized ==
  normalize_neural_plate(nz.result.normalized_plate, nz.confidence,
                         nz.country, nz.vehicle_type, nz.config)

\* C38: every accepted normalized_plate has one of the four domestic shapes,
\* cleaned text shorter than 5 characters is never corrected and never
\* accepted, and normalizing an accepted normalized_plate again with the same
\* confidence and policy accepts the same plate with zero corrections.
C38_AcceptedPlateIsDomesticAndStable ==
  Normalized =>
    /\ nz.result.is_valid =>
         /\ HasDomesticShape(nz.result.normalized_plate)
         /\ Renormalized.is_valid
         /\ Renormalized.normalized_plate = nz.result.normalized_plate
         /\ Renormalized.ocr_corrections_applied = 0
    /\ (nz.plate_text # NoneStr /\ Len(CleanText(nz.plate_text)) < 5) =>
         /\ ~nz.result.is_valid
         /\ nz.result.ocr_corrections_applied = 0

====
